---- MODULE Spec2Model ----
(***************************************************************************)
(* Model of the sudoku engine of sudoku-vue (src/src/utils/                *)
(* sudokuGenerator.js): copyGrid, findEmpty, isValid, getSolutionCount,    *)
(* solveSudoku, fillSudoku, createEmptyGrid, generateSudoku,               *)
(* isGridComplete, isGridSolved.                                           *)
(*                                                                         *)
(* Cells are JavaScript objects: the model keeps them in a heap (a         *)
(* sequence of cell records, the address of a cell being its index) and a  *)
(* grid is a matrix of addresses, so that sharing of cell objects between  *)
(* two grids and writes through a shared cell are visible.                 *)
(*                                                                         *)
(* The source fixes the board at 9 x 9 with 3 x 3 boxes.  The model writes *)
(* the box side as BoxSize and the board side as N == BoxSize * BoxSize,   *)
(* and is checked with BoxSize = 2 (a 4 x 4 board): every literal 9, 3 and *)
(* 81 of the source appears here as N, BoxSize and NN.                     *)
(***************************************************************************)
EXTENDS Integers, Sequences, FiniteSets, TLC

\* Side of a box: the literal 3 of the source (sudokuGenerator.js:47-48),
\* scaled down to 2 so that the searches over all boards stay finite.
BoxSize == 2
\* Side of the board: the source's 9.
N == BoxSize * BoxSize
\* Number of cells: the source's 81 (sudokuGenerator.js:185).
NN == N * N

\* Row and column indices, 0-based as in the source.
Idx == 0 .. (N - 1)
BoxIdx == 0 .. (BoxSize - 1)
\* Positions [row, col] as <<row, col>>.
Pos == Idx \X Idx

\* The value '' of an empty cell.
Empty == ""
\* The JavaScript null, where a grid is expected and where findEmpty's
\* { row, col } is expected.
NullGrid == <<>>
NoCell == [row |-> 0 - 1, col |-> 0 - 1]

\* num.toString() for num in 1..9.
DigitStr == <<"1", "2", "3", "4", "5", "6", "7", "8", "9">>
toString(num) == DigitStr[num]
\* The cell values of a board: '1'..'9' (here '1'..N).
Digits == {toString(num) : num \in 1 .. N}

\* F applied to the value of v (v is evaluated once, before F's body).
Then(v, F(_)) == CHOOSE y \in {F(x) : x \in {v}} : TRUE

Min2(a, b) == IF a <= b THEN a ELSE b
Max2(a, b) == IF a >= b THEN a ELSE b

(***************************************************************************)
(* The heap of cell objects.                                               *)
(***************************************************************************)
\* A cell object { value, isStatic }.
Cell(v, s) == [value |-> v, isStatic |-> s]

\* grid[row][col].value
valueAt(h, grid, row, col) == h[grid[row][col]].value
\* grid[row][col].isStatic
staticAt(h, grid, row, col) == h[grid[row][col]].isStatic

\* grid[row][col].value = v
setValue(h, grid, row, col, v) == [h EXCEPT ![grid[row][col]].value = v]

\* The addresses of the cell objects of a grid.
cellsOf(grid) == {grid[p[1]][p[2]] : p \in Pos}

\* The values of a grid, as a matrix of strings (what a reader of the grid sees).
valuesOf(h, grid) == [row \in Idx |-> [col \in Idx |-> valueAt(h, grid, row, col)]]
\* The isStatic flags of a grid.
staticsOf(h, grid) == [row \in Idx |-> [col \in Idx |-> staticAt(h, grid, row, col)]]

\* A grid of fresh cell objects allocated after the cells of heap h.
freshGrid(h) == [row \in Idx |-> [col \in Idx |-> Len(h) + row * N + col + 1]]

\* Mutant of copyGrid: a shallow copy, the rows are new but the cells are shared.
copyGridShallow(h, grid) == [heap |-> h, grid |-> [row \in Idx |-> grid[row]]]

\* copyGrid: grid.map(row => row.map(cell => ({ ...cell }))).
copyGrid(h, grid) ==
    LET g2 == freshGrid(h)
        cells == [i \in 1 .. NN |->
                    h[grid[(i - 1) \div N][(i - 1) % N]]]
    IN [heap |-> h \o cells, grid |-> g2]

\* createEmptyGrid: 9 rows of 9 fresh cells { value: '', isStatic: false }.
createEmptyGrid(h) ==
    [heap |-> h \o [i \in 1 .. NN |-> Cell(Empty, FALSE)], grid |-> freshGrid(h)]

(***************************************************************************)
(* Constraint checker and board queries.                                   *)
(***************************************************************************)
\* findEmpty: the first cell in row-major order whose value is falsy, or null.
findEmpty(h, grid) ==
    LET empties == {i \in 0 .. (NN - 1) : valueAt(h, grid, i \div N, i % N) = Empty}
    IN IF empties = {} THEN NoCell
       ELSE LET i == CHOOSE k \in empties : \A j \in empties : k <= j
            IN [row |-> i \div N, col |-> i % N]

\* Mutant of isValid: the column is not checked.
isValidNoCol(h, grid, row, col, value) ==
    /\ \A i \in Idx : valueAt(h, grid, row, i) # value
    /\ LET startRow == BoxSize * (row \div BoxSize)
           startCol == BoxSize * (col \div BoxSize)
       IN \A i \in BoxIdx : \A j \in BoxIdx :
              valueAt(h, grid, startRow + i, startCol + j) # value

\* Mutant of isValid: the row is not checked.
isValidNoRow(h, grid, row, col, value) ==
    /\ \A i \in Idx : valueAt(h, grid, i, col) # value
    /\ LET startRow == BoxSize * (row \div BoxSize)
           startCol == BoxSize * (col \div BoxSize)
       IN \A i \in BoxIdx : \A j \in BoxIdx :
              valueAt(h, grid, startRow + i, startCol + j) # value

\* isValid: no cell of the row, the column or the box holds value
\* (the cell [row][col] itself is compared too).
isValid(h, grid, row, col, value) ==
    /\ \A i \in Idx :
          /\ valueAt(h, grid, row, i) # value
          /\ valueAt(h, grid, i, col) # value
    /\ LET startRow == BoxSize * (row \div BoxSize)
           startCol == BoxSize * (col \div BoxSize)
       IN \A i \in BoxIdx : \A j \in BoxIdx :
              valueAt(h, grid, startRow + i, startCol + j) # value

\* The cell objects a grid refers to, as a matrix of cells: what a component
\* reads through props.grid.
deref(h, grid) == [row \in Idx |-> [col \in Idx |-> h[grid[row][col]]]]

\* Mutant of isValidForCell: the box is not checked.
isValidForCellNoBox(grid, row, col, value) ==
    IF value = Empty THEN TRUE
    ELSE \A i \in Idx :
            /\ (i # col => grid[row][i].value # value)
            /\ (i # row => grid[i][col].value # value)

\* isValidForCell (SudokuTable.vue): '' is always valid; otherwise no cell of
\* the row, the column or the box other than [row][col] holds value.  Here
\* grid is a matrix of cells.
isValidForCell(grid, row, col, value) ==
    IF value = Empty THEN TRUE
    ELSE /\ \A i \in Idx : i # col => grid[row][i].value # value
         /\ \A i \in Idx : i # row => grid[i][col].value # value
         /\ LET startRow == BoxSize * (row \div BoxSize)
                startCol == BoxSize * (col \div BoxSize)
            IN \A i \in BoxIdx : \A j \in BoxIdx :
                   LET r == startRow + i
                       c == startCol + j
                   IN (r # row \/ c # col) => grid[r][c].value # value

\* isGridComplete: every cell.value !== ''.
isGridComplete(h, grid) ==
    \A row \in Idx : \A col \in Idx : valueAt(h, grid, row, col) # Empty

\* One pass of isGridSolved over a group of cells with a seen-set: no value
\* is met twice.
noRepeat(h, grid, group) ==
    \A p \in group : \A q \in group :
        p # q => valueAt(h, grid, p[1], p[2]) # valueAt(h, grid, q[1], q[2])

\* The cells of row r, of column c, of the box (blockRow, blockCol).
rowGroup(r) == {<<r, col>> : col \in Idx}
colGroup(c) == {<<row, c>> : row \in Idx}
boxGroup(blockRow, blockCol) ==
    {<<blockRow * BoxSize + i, blockCol * BoxSize + j>> : i \in BoxIdx, j \in BoxIdx}

\* Mutant of isGridSolved: the completeness check is left out, the passes
\* treat '' as one more value.
isGridSolvedNoComplete(h, grid) ==
    /\ \A row \in Idx : noRepeat(h, grid, rowGroup(row))
    /\ \A col \in Idx : noRepeat(h, grid, colGroup(col))
    /\ \A blockRow \in BoxIdx : \A blockCol \in BoxIdx :
           noRepeat(h, grid, boxGroup(blockRow, blockCol))

\* Mutant of isGridSolved: the pass over the columns is left out.
isGridSolvedNoCol(h, grid) ==
    IF ~isGridComplete(h, grid) THEN FALSE
    ELSE /\ \A row \in Idx : noRepeat(h, grid, rowGroup(row))
         /\ \A blockRow \in BoxIdx : \A blockCol \in BoxIdx :
                noRepeat(h, grid, boxGroup(blockRow, blockCol))

\* isGridSolved: complete, and no repeated value in a row, a column or a box.
isGridSolved(h, grid) ==
    IF ~isGridComplete(h, grid) THEN FALSE
    ELSE /\ \A row \in Idx : noRepeat(h, grid, rowGroup(row))
         /\ \A col \in Idx : noRepeat(h, grid, colGroup(col))
         /\ \A blockRow \in BoxIdx : \A blockCol \in BoxIdx :
                noRepeat(h, grid, boxGroup(blockRow, blockCol))

(***************************************************************************)
(* getSolutionCount and solveSudoku.                                       *)
(***************************************************************************)
RECURSIVE countSolve(_, _, _, _), countLoop(_, _, _, _, _, _, _)

\* Mutant of countSolve: the early exit at the cap is missing.
countSolveNoCap(h, grid, count, maxCount) ==
    LET empty == findEmpty(h, grid)
    IN IF empty = NoCell THEN [heap |-> h, count |-> count + 1]
       ELSE countLoop(h, grid, count, maxCount, empty.row, empty.col, 1)

\* Mutant of countSolve: the early exit tests count > maxCount.
countSolveLateExit(h, grid, count, maxCount) ==
    IF count > maxCount THEN [heap |-> h, count |-> count]
    ELSE LET empty == findEmpty(h, grid)
         IN IF empty = NoCell THEN [heap |-> h, count |-> count + 1]
            ELSE countLoop(h, grid, count, maxCount, empty.row, empty.col, 1)

\* The inner solve() of getSolutionCount; count is the closure's counter.
countSolve(h, grid, count, maxCount) ==
    IF count >= maxCount THEN [heap |-> h, count |-> count]
    ELSE LET empty == findEmpty(h, grid)
         IN IF empty = NoCell THEN [heap |-> h, count |-> count + 1]
            ELSE countLoop(h, grid, count, maxCount, empty.row, empty.col, 1)

\* The digit loop of the inner solve(): for (num = 1; num <= 9; num++).
countLoop(h, grid, count, maxCount, row, col, num) ==
    IF num > N THEN [heap |-> h, count |-> count]
    ELSE LET value == toString(num)
         IN IF isValid(h, grid, row, col, value)
            THEN Then(countSolve(setValue(h, grid, row, col, value),
                                 grid, count, maxCount),
                      LAMBDA r : countLoop(setValue(r.heap, grid, row, col, Empty),
                                           grid, r.count, maxCount, row, col, num + 1))
            ELSE countLoop(h, grid, count, maxCount, row, col, num + 1)

\* getSolutionCount(grid, maxCount): the count, and the heap after the call.
getSolutionCount(h, grid, maxCount) ==
    LET cloned == copyGrid(h, grid)
    IN countSolve(cloned.heap, cloned.grid, 0, maxCount)

RECURSIVE solve(_, _), solveLoop(_, _, _, _, _)

\* Mutant of solve: the digit loop starts at 2.
solveFromTwo(h, grid) ==
    LET empty == findEmpty(h, grid)
    IN IF empty = NoCell THEN [heap |-> h, ok |-> TRUE]
       ELSE solveLoop(h, grid, empty.row, empty.col, 2)

\* Mutant of solveLoop: the digits are tried from 9 down to 1.
RECURSIVE solveLoopDown(_, _, _, _, _)
solveLoopDown(h, grid, row, col, num) ==
    IF num > N THEN [heap |-> h, ok |-> FALSE]
    ELSE LET value == toString(N + 1 - num)
         IN IF isValid(h, grid, row, col, value)
            THEN Then(solve(setValue(h, grid, row, col, value), grid),
                      LAMBDA r : IF r.ok THEN r
                                 ELSE solveLoopDown(setValue(r.heap, grid, row, col, Empty),
                                                    grid, row, col, num + 1))
            ELSE solveLoopDown(h, grid, row, col, num + 1)

\* The inner solve() of solveSudoku.
solve(h, grid) ==
    LET empty == findEmpty(h, grid)
    IN IF empty = NoCell THEN [heap |-> h, ok |-> TRUE]
       ELSE solveLoop(h, grid, empty.row, empty.col, 1)

\* The digit loop of the inner solve().
solveLoop(h, grid, row, col, num) ==
    IF num > N THEN [heap |-> h, ok |-> FALSE]
    ELSE LET value == toString(num)
         IN IF isValid(h, grid, row, col, value)
            THEN Then(solve(setValue(h, grid, row, col, value), grid),
                      LAMBDA r : IF r.ok THEN r
                                 ELSE solveLoop(setValue(r.heap, grid, row, col, Empty),
                                                grid, row, col, num + 1))
            ELSE solveLoop(h, grid, row, col, num + 1)

\* solveSudoku(grid): the returned grid (or null), and the heap after the call.
solveSudoku(h, grid) ==
    LET cloned == copyGrid(h, grid)
        r == solve(cloned.heap, cloned.grid)
    IN [heap |-> r.heap, grid |-> IF r.ok THEN cloned.grid ELSE NullGrid]

(***************************************************************************)
(* Reference notions the claims are stated against (declarative, no search).*)
(***************************************************************************)
\* A matrix of values is consistent: no digit twice in a row, column or box.
ConsistentVals(m) ==
    LET distinct(group) ==
            \A p \in group : \A q \in group :
                (p # q /\ m[p[1]][p[2]] # Empty) => m[p[1]][p[2]] # m[q[1]][q[2]]
    IN /\ \A r \in Idx : distinct(rowGroup(r)) /\ distinct(colGroup(r))
       /\ \A br \in BoxIdx : \A bc \in BoxIdx : distinct(boxGroup(br, bc))

CompleteVals(m) == \A p \in Pos : m[p[1]][p[2]] # Empty

\* The rows that are permutations of the digits.
RowPerms == {r \in [Idx -> Digits] : \A i \in Idx : \A j \in Idx : i # j => r[i] # r[j]}

\* The matrix whose first rows are those of the sequence t, the rest empty.
PadRows(t) ==
    [row \in Idx |-> IF row + 1 <= Len(t) THEN t[row + 1] ELSE [col \in Idx |-> Empty]]

\* The consistent sequences of k full rows.
RECURSIVE RowStacks(_)
RowStacks(k) ==
    IF k = 0 THEN {<<>>}
    ELSE {t \in {Append(s, r) : s \in RowStacks(k - 1), r \in RowPerms} :
            ConsistentVals(PadRows(t))}

\* Every solved board (as a matrix of values).
AllSolved == {PadRows(t) : t \in RowStacks(N)}

\* Matrix s agrees with matrix m on the non-empty cells of m.
Agrees(s, m) == \A p \in Pos : m[p[1]][p[2]] # Empty => s[p[1]][p[2]] = m[p[1]][p[2]]

\* The solved boards that complete m.
Completions(m) == {s \in AllSolved : Agrees(s, m)}

(***************************************************************************)
(* State.                                                                  *)
(***************************************************************************)
VARIABLES
    heap,       \* the cell objects
    \* a caller of the pure engine functions
    ppc,        \* "idle", "input", "solved", "counted"
    input,      \* the caller's grid
    before,     \* the heap when the engine function was called
    retGrid,    \* what solveSudoku returned: a grid or null
    retCount,   \* what getSolutionCount returned
    cap,        \* the maxCount passed to getSolutionCount
    \* a call of generateSudoku(minFilled, maxTries)
    pc,         \* "idle", "loop", "fill", "fill-loop", "dig-init", "dig",
                \* "relax", "done", "overflow"
    minFilled,  \* the argument of the running invocation
    maxTries,   \* the argument
    attempt,    \* the local attempt of the running invocation
    depth,      \* how many relaxed re-invocations are on the call stack
    full,       \* the local full: the working board, or null
    fstack,     \* the frames of the running fillSudoku calls
    positions,  \* the shuffled positions
    posIdx,     \* the next position of the for-of loop (1-based)
    removed,    \* the local removed
    result,     \* the returned board, or null
    filledBoard, \* the values full held when its fillSudoku returned
    \* a call of one of the checks (isValid, isValidForCell, isGridComplete,
    \* isGridSolved) on the caller's grid
    query,      \* the function called and its arguments
    answer,     \* the boolean it returned
    \* App.vue and SudokuTable.vue
    gridValue,    \* grid.value of App, props.grid of SudokuTable: a matrix of cells
    selectedRow,  \* selectedRow.value, or null
    selectedCol,  \* selectedCol.value, or null
    solveError,   \* solveError.value
    lastEvent,    \* the last call of an edit handler: its arguments, and
                  \* whether it emitted update:grid
    prevGrid,     \* props.grid when that handler was called
    \* localStorage, the saved games and the clock
    storage,      \* localStorage: what each key holds
    savedGames,   \* savedGames.value
    trash,        \* trash.value
    now,          \* Date.now(), in days
    \* a call of generateSudoku of useSudokuWorker, and its caller in App
    apc,          \* "unmounted", "idle", "api" (fetchSudoku awaited),
                  \* "worker" (the promise of generateWithWorker awaited)
    caller,       \* "none", "mount" (onMounted), "user" (handleGenerate)
    difficulty,   \* difficulty.value
    asked,        \* the difficulty argument of the running call
    isGenerating, \* isGenerating.value
    apiResult,    \* what fetchSudoku returned, or null
    localTry,     \* the calls of generateWithWorker made by the running call
    worker,       \* "none", "created", "unsupported"
    inbox,        \* 'generate' messages the worker has not handled yet
    mail,         \* responses the worker has posted, not yet delivered
    timerArmed,   \* the timeout of the awaited promise is pending
    timeouts,     \* timeouts that fired during the last call
    shownBefore,  \* grid.value when the last call started
    calls,        \* calls of generateSudoku started so far
    \* calls of generateSudoku of useSudokuWorker made by any callers, which
    \* may overlap; a request is <<call, number of its generateWithWorker>>
    running,      \* of each call: where it is, and what settled its promise
    onmessage,    \* the request whose handlers the worker instance holds
    posted,       \* the requests of the 'generate' messages not handled yet
    replies,      \* responses of the worker not delivered yet, each with
                  \* the request it answers
    \* the saved games and the current grid as objects
    currentGameId, \* currentGameId.value, or null
    gridObj,      \* the cell objects of grid.value: a matrix of addresses
    gameObj,      \* of each game id handed out: the cell objects of its grid
    clicks        \* handler calls so far

pureVars == <<ppc, input, before, retGrid, retCount, cap>>
genVars == <<pc, minFilled, maxTries, attempt, depth, full, fstack, positions,
             posIdx, removed, result,
            filledBoard>>
queryVars == <<query, answer>>
uiVars == <<gridValue, selectedRow, selectedCol, solveError, lastEvent, prevGrid>>
tableVars == <<selectedRow, selectedCol, lastEvent, prevGrid>>
storeVars == <<storage, savedGames, trash, now>>
callVars == <<apc, caller, difficulty, asked, isGenerating, apiResult, localTry, worker,
              inbox, mail, timerArmed, timeouts, shownBefore, calls>>
poolVars == <<running, onmessage, posted, replies>>
gameVars == <<currentGameId, gridObj, gameObj, clicks>>
vars == <<heap, pureVars, genVars, queryVars, uiVars, storeVars, callVars, poolVars,
          gameVars>>

\* What the actions of one part leave alone of the other parts.
notPure == <<genVars, queryVars, uiVars, storeVars, callVars, poolVars, gameVars>>
notGen == <<pureVars, queryVars, uiVars, storeVars, callVars, poolVars, gameVars>>
notQuery ==
    <<before, retGrid, retCount, cap, genVars, uiVars, storeVars, callVars, poolVars,
      gameVars>>
notUi == <<heap, pureVars, genVars, queryVars, storeVars, callVars, poolVars, gameVars>>
notApp == <<heap, pureVars, genVars, queryVars, tableVars, poolVars, gameVars>>

\* No call of generateSudoku is running.
GenIdle ==
    /\ pc = "idle"
    /\ minFilled = 0
    /\ maxTries = 0
    /\ attempt = 0
    /\ depth = 0
    /\ full = NullGrid
    /\ fstack = <<>>
    /\ positions = <<>>
    /\ posIdx = 0
    /\ removed = 0
    /\ result = NullGrid
    /\ filledBoard = NullGrid

\* No call of a pure engine function is running.
PureIdle ==
    /\ ppc = "idle"
    /\ input = NullGrid
    /\ before = <<>>
    /\ retGrid = NullGrid
    /\ retCount = 0 - 1
    /\ cap = 0

\* null, where the source holds a number or null, and where it holds a
\* message or null.
NullIndex == 0 - 1
NullMessage == "null"

\* No edit handler has been called.
NoEvent == [handler |-> "none", row |-> NullIndex, col |-> NullIndex,
            value |-> Empty, emitted |-> FALSE]

\* No component is mounted.
UiIdle ==
    /\ gridValue = NullGrid
    /\ selectedRow = NullIndex
    /\ selectedCol = NullIndex
    /\ solveError = NullMessage
    /\ lastEvent = NoEvent
    /\ prevGrid = NullGrid

\* Nothing is stored, no game is saved.
StoreIdle ==
    /\ storage = <<>>
    /\ savedGames = <<>>
    /\ trash = <<>>
    /\ now = 0

\* No game is current, and no grid is held as objects.
GameIdle ==
    /\ currentGameId = NullIndex
    /\ gridObj = NullGrid
    /\ gameObj = <<>>
    /\ clicks = 0

\* No caller has called generateSudoku of useSudokuWorker.
PoolIdle ==
    /\ running = <<>>
    /\ onmessage = <<>>
    /\ posted = <<>>
    /\ replies = <<>>

\* null as the result of fetchSudoku.
ApiNull == [isNull |-> TRUE, grid |-> NullGrid, difficulty |-> "none"]

\* No call of generateSudoku of useSudokuWorker has been made.
CallIdle ==
    /\ apc = "unmounted"
    /\ caller = "none"
    /\ difficulty = "medium"
    /\ asked = "none"
    /\ isGenerating = FALSE
    /\ apiResult = ApiNull
    /\ localTry = 0
    /\ worker = "none"
    /\ inbox = 0
    /\ mail = <<>>
    /\ timerArmed = FALSE
    /\ timeouts = 0
    /\ shownBefore = NullGrid
    /\ calls = 0
    /\ PoolIdle
    /\ GameIdle

\* No check has been called.
NoQuery == [fn |-> "none", row |-> 0 - 1, col |-> 0 - 1, value |-> Empty]
QueryIdle ==
    /\ query = NoQuery
    /\ answer = FALSE

(***************************************************************************)
(* The boards handed to the pure functions.                                *)
(***************************************************************************)
\* Most cells a punched board has emptied.
MaxHoles == 4
\* Most cells emptied in a board that also has one overwritten cell.
MaxCorruptHoles == 2
\* Most clues of a sparse board.
MaxClues == 2
\* Largest maxCount passed to getSolutionCount.
MaxCap == 3

\* A solved board.
Seed ==
    [row \in Idx |-> [col \in Idx |->
        toString(((BoxSize * (row % BoxSize) + (row \div BoxSize) + col) % N) + 1)]]

\* The board with every cell empty.
EmptyVals == [row \in Idx |-> [col \in Idx |-> Empty]]

\* Matrix m with the cells of H emptied.
Punch(m, H) ==
    [row \in Idx |-> [col \in Idx |-> IF <<row, col>> \in H THEN Empty ELSE m[row][col]]]

\* Matrix m with cell p holding d.
Overwrite(m, p, d) == [m EXCEPT ![p[1]][p[2]] = d]

\* The sets of at most k cells of S.
HoleSets(S, k) == {H \in SUBSET S : Cardinality(H) <= k}

\* The cells of the first band of boxes, and of the first box.
Band == {p \in Pos : p[1] < BoxSize}
FirstBox == {p \in Band : p[2] < BoxSize}

\* The seed with up to MaxHoles cells emptied.
PunchedBoards == {Punch(Seed, H) : H \in HoleSets(Pos, MaxHoles)}

\* A seed punched in the first band, with one cell of the band then
\* overwritten by a digit: consistent or not, solvable or not.
CorruptBoards ==
    {Overwrite(Punch(Seed, H), p, d) :
        H \in HoleSets(Band, MaxCorruptHoles), p \in Band, d \in Digits}

\* Boards with at most k cells filled, by any digits, in the first box.
RECURSIVE SparseBoards(_)
SparseBoards(k) ==
    IF k = 0 THEN {EmptyVals}
    ELSE SparseBoards(k - 1) \cup
         {Overwrite(m, p, d) : m \in SparseBoards(k - 1), p \in FirstBox, d \in Digits}

\* The board holding digit d in two cells of one row and empty elsewhere.
Twin(row, c1, c2, d) ==
    Overwrite(Overwrite(EmptyVals, <<row, c1>>, d), <<row, c2>>, d)

\* Every such board: every row, every pair of distinct columns, every digit.
TwinBoards ==
    {Twin(row, c[1], c[2], d) :
        row \in Idx, c \in {k \in Idx \X Idx : k[1] < k[2]}, d \in Digits}

InputBoards ==
    PunchedBoards \cup CorruptBoards \cup SparseBoards(MaxClues) \cup AllSolved
    \cup TwinBoards

Caps == (0 - 1) .. MaxCap

\* The cell objects of a board with the values of m: a filled cell on an
\* even diagonal is a clue, the other cells are the user's.
HeapOf(m) ==
    [i \in 1 .. NN |->
        LET row == (i - 1) \div N
            col == (i - 1) % N
        IN Cell(m[row][col], m[row][col] # Empty /\ (row + col) % 2 = 0)]

\* The grid whose cells are the first NN cells of the heap.
BaseGrid == [row \in Idx |-> [col \in Idx |-> row * N + col + 1]]

PureInit ==
    /\ \E m \in InputBoards : heap = HeapOf(m)
    /\ input = BaseGrid
    /\ ppc = "input"
    /\ before = <<>>
    /\ retGrid = NullGrid
    /\ retCount = 0 - 1
    /\ cap = 0
    /\ GenIdle
    /\ QueryIdle
    /\ UiIdle
    /\ StoreIdle
    /\ CallIdle

\* const solution = solveSudoku(grid)
CallSolve ==
    /\ ppc = "input"
    /\ LET r == solveSudoku(heap, input)
       IN /\ heap' = r.heap
          /\ retGrid' = r.grid
    /\ before' = heap
    /\ ppc' = "solved"
    /\ UNCHANGED <<input, retCount, cap, notPure>>

\* getSolutionCount(grid, maxCount)
CallCount ==
    /\ ppc = "input"
    /\ \E c \in Caps :
          LET r == getSolutionCount(heap, input, c)
          IN /\ heap' = r.heap
             /\ retCount' = r.count
             /\ cap' = c
    /\ before' = heap
    /\ ppc' = "counted"
    /\ UNCHANGED <<input, retGrid, notPure>>

PureNext == CallSolve \/ CallCount

PureSpec == PureInit /\ [][PureNext]_vars

(***************************************************************************)
(* generateSudoku(minFilled, maxTries), step by step.                      *)
(*                                                                         *)
(* shuffle (utils/shuffle.js) returns some permutation of its argument.    *)
(* The digits of a fillSudoku frame are drawn one at a time as the loop    *)
(* reaches them, which yields every order a shuffle done on entry yields;  *)
(* a drawn digit that isValid rejects changes nothing, so the loop is      *)
(* advanced to the next digit it accepts.  The order of the positions is   *)
(* drawn from PosOrders.                                                   *)
(***************************************************************************)
\* Largest maxTries passed to generateSudoku.
MaxTries == 2
\* Largest stride of a position order, and largest rotation of its start.
MaxStride == 3
MaxOffset == 1
\* Nested invocations the JavaScript call stack holds before a RangeError.
MaxDepth == 6

\* The relaxed target of the fallback: Math.min(minFilled + 10, 45).
RelaxStep == 10
RelaxCap == 45

\* The arguments passed: a target hard to reach, one easy to reach, one
\* above the number of cells; an attempt budget from -1 up.  The hard
\* target is run with the largest budget, the other targets with the
\* smaller ones.
MinFilledInputs == {N, NN - BoxSize - 1, NN + 1}
MaxTriesInputs == (0 - 1) .. MaxTries
GenInputs ==
    {a \in MinFilledInputs \X MaxTriesInputs :
        a[2] <= 0 \/ ((a[1] = N) <=> (a[2] = MaxTries))}

RECURSIVE GCD(_, _)
GCD(a, b) == IF b = 0 THEN a ELSE GCD(b, a % b)

\* shuffle(positions): the orders of the NN positions it may leave, here the
\* row-major list read with a stride and from a rotated start.
PosOrders ==
    {[i \in 1 .. NN |->
        LET k == ((i - 1) * s + o) % NN IN <<k \div N, k % N>>] :
        s \in {t \in 1 .. MaxStride : GCD(t, NN) = 1}, o \in 0 .. MaxOffset}

GenInit ==
    /\ heap = <<>>
    /\ PureIdle
    /\ QueryIdle
    /\ UiIdle
    /\ StoreIdle
    /\ CallIdle
    /\ pc = "loop"
    /\ \E a \in GenInputs :
          /\ minFilled = a[1]
          /\ maxTries = a[2]
    /\ attempt = 0
    /\ depth = 0
    /\ full = NullGrid
    /\ fstack = <<>>
    /\ positions = <<>>
    /\ posIdx = 0
    /\ removed = 0
    /\ result = NullGrid
    /\ filledBoard = NullGrid

\* while (attempt++ < maxTries) { const full = createEmptyGrid(); fillSudoku(full)
StartAttempt ==
    /\ pc = "loop"
    /\ attempt < maxTries
    /\ attempt' = attempt + 1
    /\ LET e == createEmptyGrid(<<>>)
       IN /\ heap' = e.heap
          /\ full' = e.grid
    /\ fstack' = <<>>
    /\ pc' = "fill"
    /\ UNCHANGED <<notGen, filledBoard, minFilled, maxTries, depth, positions, posIdx,
                   removed, result>>

\* The loop test fails: control reaches the fallback after the loop.
LoopExhausted ==
    /\ pc = "loop"
    /\ ~(attempt < maxTries)
    /\ attempt' = attempt + 1
    /\ pc' = "relax"
    /\ UNCHANGED <<heap, notGen, filledBoard, minFilled, maxTries, depth, full, fstack,
                   positions, posIdx, removed, result>>

\* Entry of a fillSudoku call: findEmpty; without an empty cell it returns
\* true, and so does every caller on the stack.
FillEnter ==
    /\ pc = "fill"
    /\ LET empty == findEmpty(heap, full)
       IN IF empty = NoCell
          THEN /\ fstack' = <<>>
               /\ pc' = "dig-init"
          ELSE /\ fstack' = Append(fstack, [row |-> empty.row, col |-> empty.col,
                                            tried |-> {}])
               /\ pc' = "fill-loop"
    /\ UNCHANGED <<heap, notGen, filledBoard, minFilled, maxTries, attempt, depth, full,
                   positions, posIdx, removed, result>>

\* Mutant of openDigits: isValid is not asked.
openDigitsUnchecked(h, grid, f) == Digits \ f.tried

\* The digits the loop of frame f has yet to reach and isValid accepts.
openDigits(h, grid, f) ==
    {value \in Digits \ f.tried : isValid(h, grid, f.row, f.col, value)}

\* The loop of the top frame reaches a digit isValid accepts: it is placed
\* and fillSudoku is called on the grid.
FillPlace ==
    /\ pc = "fill-loop"
    /\ LET f == fstack[Len(fstack)]
       IN \E value \in openDigits(heap, full, f) :
             /\ heap' = setValue(heap, full, f.row, f.col, value)
             /\ fstack' = [fstack EXCEPT ![Len(fstack)].tried = @ \cup {value}]
    /\ pc' = "fill"
    /\ UNCHANGED <<notGen, filledBoard, minFilled, maxTries, attempt, depth, full,
                   positions, posIdx, removed, result>>

\* The loop of the top frame ends: the call returns false, and the caller
\* resets the cell it had filled (grid[row][col].value = '').
FillFail ==
    /\ pc = "fill-loop"
    /\ openDigits(heap, full, fstack[Len(fstack)]) = {}
    /\ LET rest == SubSeq(fstack, 1, Len(fstack) - 1)
       IN /\ fstack' = rest
          /\ IF rest = <<>>
             THEN /\ heap' = heap
                  /\ pc' = "dig-init"
             ELSE /\ heap' = setValue(heap, full, rest[Len(rest)].row,
                                      rest[Len(rest)].col, Empty)
                  /\ pc' = "fill-loop"
    /\ UNCHANGED <<notGen, filledBoard, minFilled, maxTries, attempt, depth, full,
                   positions, posIdx, removed, result>>

\* positions = all [row, col]; shuffle(positions); let removed = 0
DigInit ==
    /\ pc = "dig-init"
    /\ positions' \in PosOrders
    /\ posIdx' = 1
    /\ removed' = 0
    /\ filledBoard' = valuesOf(heap, full)
    /\ pc' = "dig"
    /\ UNCHANGED <<heap, notGen, minFilled, maxTries, attempt, depth, full,
                   fstack, result>>

\* const maxToRemove = 81 - minFilled
maxToRemove(mf) == NN - mf

\* Mutant of digStop: the loop breaks one removal late.
digStopLate(rem, mf) == rem > maxToRemove(mf)

\* if (removed >= maxToRemove) break
digStop(rem, mf) == rem >= maxToRemove(mf)

\* Mutant of digKeep: the cell is restored only when no solution is left.
digKeepSolvable(count) == count # 0

\* The cleared cell stays cleared: !(getSolutionCount(full, 2) !== 1).
digKeep(count) == count = 1

\* Mutant of digCell: the backup is never written back.
digCellNoRestore(h, grid, row, col, rem) ==
    LET r == getSolutionCount(setValue(h, grid, row, col, Empty), grid, 2)
    IN [heap |-> SubSeq(r.heap, 1, Len(h)),
        removed |-> IF digKeep(r.count) THEN rem + 1 ELSE rem]

\* One pass of the loop body for the position [row, col]; the clone
\* getSolutionCount made is dropped after the call.
digCell(h, grid, row, col, rem) ==
    LET backup == valueAt(h, grid, row, col)
        r == getSolutionCount(setValue(h, grid, row, col, Empty), grid, 2)
        h2 == SubSeq(r.heap, 1, Len(h))
    IN IF digKeep(r.count)
       THEN [heap |-> h2, removed |-> rem + 1]
       ELSE [heap |-> setValue(h2, grid, row, col, backup), removed |-> rem]

\* for (const [row, col] of positions) { ... }: one position.
DigStep ==
    /\ pc = "dig"
    /\ posIdx <= NN
    /\ ~digStop(removed, minFilled)
    /\ LET p == positions[posIdx]
           r == digCell(heap, full, p[1], p[2], removed)
       IN /\ heap' = r.heap
          /\ removed' = r.removed
    /\ posIdx' = posIdx + 1
    /\ UNCHANGED <<notGen, filledBoard, pc, minFilled, maxTries, attempt, depth, full,
                   fstack, positions, result>>

\* Mutant of markStatic: the flag is set on the empty cells.
markStaticInverted(h) == [a \in 1 .. Len(h) |-> [h[a] EXCEPT !.isStatic = (h[a].value = Empty)]]

\* full[row][col].isStatic = !!full[row][col].value, for every cell (the heap
\* of a running generateSudoku holds the cells of full and nothing else).
markStatic(h) == [a \in 1 .. Len(h) |-> [h[a] EXCEPT !.isStatic = (h[a].value # Empty)]]

\* The loop over the positions ends (break, or all positions seen), the
\* cells are marked and full is returned, through every relaxed invocation.
DigReturn ==
    /\ pc = "dig"
    /\ (posIdx > NN \/ digStop(removed, minFilled))
    /\ heap' = markStatic(heap)
    /\ result' = full
    /\ pc' = "done"
    /\ UNCHANGED <<notGen, filledBoard, minFilled, maxTries, attempt, depth, full, fstack,
                   positions, posIdx, removed>>

\* The relaxed target of the fallback.
relaxedTarget(mf) == Min2(mf + RelaxStep, RelaxCap)

\* return generateSudoku(Math.min(minFilled + 10, 45), maxTries)
Relax ==
    /\ pc = "relax"
    /\ depth < MaxDepth
    /\ depth' = depth + 1
    /\ minFilled' = relaxedTarget(minFilled)
    /\ attempt' = 0
    /\ pc' = "loop"
    /\ UNCHANGED <<heap, notGen, filledBoard, maxTries, full, fstack, positions, posIdx,
                   removed, result>>

\* The call stack is full: the nested call throws a RangeError, which no
\* invocation of generateSudoku catches.
StackOverflow ==
    /\ pc = "relax"
    /\ depth = MaxDepth
    /\ pc' = "overflow"
    /\ UNCHANGED <<heap, notGen, filledBoard, minFilled, maxTries, attempt, depth, full,
                   fstack, positions, posIdx, removed, result>>

Next ==
    \/ StartAttempt
    \/ LoopExhausted
    \/ FillEnter
    \/ FillPlace
    \/ FillFail
    \/ DigInit
    \/ DigStep
    \/ DigReturn
    \/ Relax
    \/ StackOverflow

Init == GenInit

Spec == Init /\ [][Next]_vars

\* Phase A alone: the first attempt of a call up to the return of its
\* fillSudoku.  A running call keeps running, so its steps are fair.
FillInit == GenInit /\ maxTries > 0
FillNext == StartAttempt \/ FillEnter \/ FillPlace \/ FillFail
FillSpec == FillInit /\ [][FillNext]_vars /\ WF_vars(FillNext)

(***************************************************************************)
(* Claim about Phase A (under FillSpec).                                    *)
(***************************************************************************)
Filling == pc \in {"fill", "fill-loop"}
Filled == pc = "dig-init"

\* C22: fillSudoku on the empty board always succeeds: for every outcome
\* of the digit shuffles it terminates, it returns true with the board
\* complete and without duplicate in a row, column or box, and the working
\* board is consistent at every step of the fill.
C22_FillAlwaysSucceeds ==
    /\ [](Filling => ConsistentVals(valuesOf(heap, full)))
    /\ [](Filled => isGridSolved(heap, full))
    /\ Filling ~> Filled

\* C22 witness: the fill has returned, with a solved board that the
\* ascending digit order does not give.
C22_Witness ==
    /\ Filled
    /\ isGridSolved(heap, full)
    /\ valuesOf(heap, full) # Seed

(***************************************************************************)
(* Claims about solveSudoku and getSolutionCount (under PureSpec).         *)
(***************************************************************************)
\* The caller's board when the engine function was called, as values.
InVals == valuesOf(before, input)
Called == ppc \in {"solved", "counted"}
Returned == ppc = "solved" /\ retGrid # NullGrid

\* C5: whenever solveSudoku returns a board, the board is complete, has no
\* duplicate in a row, column or box, and holds the input's value at every
\* cell that was filled in the input -- for every input, consistent or not.
C5_ReturnedBoardIsSolved ==
    Returned =>
        /\ isGridSolved(heap, retGrid)
        /\ Agrees(valuesOf(heap, retGrid), InVals)

\* C6: on a consistent board solveSudoku returns null only if no solved
\* board agrees with the input on its filled cells.
C6_NullOnlyIfNoCompletion ==
    (ppc = "solved" /\ ConsistentVals(InVals)) =>
        (retGrid = NullGrid => Completions(InVals) = {})

\* C6 witness: a consistent board with empty cells and a completion, for
\* which a board was returned; and one without completion.
C6_Witness ==
    /\ Returned
    /\ ConsistentVals(InVals)
    /\ Cardinality({p \in Pos : InVals[p[1]][p[2]] = Empty}) >= MaxHoles
    /\ Completions(InVals) # {}

\* C7: solveSudoku and getSolutionCount leave every cell of the caller's
\* grid as it was, and the returned board shares no cell with the input.
C7_InputUntouched ==
    Called =>
        /\ \A a \in cellsOf(input) : heap[a] = before[a]
        /\ Returned => cellsOf(retGrid) \cap cellsOf(input) = {}

\* C7 witness: the solver filled cells of its copy.
C7_Witness ==
    /\ Returned
    /\ ~CompleteVals(InVals)
    /\ isGridComplete(heap, retGrid)

\* C8: a board with isGridSolved is complete, has solution count 1 under
\* cap 2, and solveSudoku returns a board equal to it cell by cell.
C8_SolvedIsFixpoint ==
    /\ ppc = "input" =>
          (isGridSolved(heap, input) => isGridComplete(heap, input))
    /\ (Called /\ isGridSolved(before, input)) =>
          /\ isGridComplete(before, input)
          /\ ppc = "solved" =>
                /\ retGrid # NullGrid
                /\ \A p \in Pos :
                      heap[retGrid[p[1]][p[2]]] = before[input[p[1]][p[2]]]
          /\ (ppc = "counted" /\ cap = 2) => retCount = 1

\* C8 witness: a solved board went through solveSudoku.
C8_Witness == Returned /\ isGridSolved(before, input)

\* Matrix a differs from matrix b, and holds the smaller digit at the first
\* cell, in row-major order, where they differ.
numberOfDigit(value) == CHOOSE n \in 1 .. N : toString(n) = value
LexBefore(a, b) ==
    \E p \in Pos :
        /\ numberOfDigit(a[p[1]][p[2]]) < numberOfDigit(b[p[1]][p[2]])
        /\ \A q \in Pos :
              (q[1] < p[1] \/ (q[1] = p[1] /\ q[2] < p[2])) => a[q[1]][q[2]] = b[q[1]][q[2]]

\* C21: solveSudoku is deterministic, a second call on the same input
\* returns the same board, and the board it returns is the smallest
\* solution: every other solved completion of the input holds a larger
\* digit at the first cell, in row-major order, where it differs from the
\* returned board.
C21_ReturnsSmallestSolution ==
    Returned =>
        /\ LET again == solveSudoku(heap, input)
           IN /\ again.grid # NullGrid
              /\ valuesOf(again.heap, again.grid) = valuesOf(heap, retGrid)
        /\ \A s \in Completions(InVals) \ {valuesOf(heap, retGrid)} :
              LexBefore(valuesOf(heap, retGrid), s)

\* C21 witness: a board with several completions, the returned board one
\* of them.
C21_Witness ==
    /\ Returned
    /\ valuesOf(heap, retGrid) \in Completions(InVals)
    /\ Cardinality(Completions(InVals)) > 2

\* C9: on a consistent board and for a cap >= 1, getSolutionCount returns
\* the number of completions, cut at the cap.
C9_CountIsMinOfCompletionsAndCap ==
    (ppc = "counted" /\ cap >= 1 /\ ConsistentVals(InVals)) =>
        retCount = Min2(Cardinality(Completions(InVals)), cap)

\* C9 witness: more completions than the cap, the cap returned.
C9_Witness ==
    /\ ppc = "counted"
    /\ cap >= 2
    /\ ConsistentVals(InVals)
    /\ Cardinality(Completions(InVals)) > cap
    /\ retCount = cap

\* C10 as stated: the value returned by getSolutionCount is 0, 1 or cap.
C10_CountIsZeroOneOrCap ==
    ppc = "counted" => retCount \in {0, 1, cap}

\* C10 amended: the value returned is between 0 and the cap (0 for a cap
\* below 1); it is 0, 1 or cap whenever the cap is at most 2.
C10_CountWithinCap ==
    ppc = "counted" =>
        /\ retCount \in 0 .. Max2(cap, 0)
        /\ cap <= 2 => retCount \in {0, 1, cap}

\* C10 witness: a count strictly between 1 and the cap.
C10_Witness == ppc = "counted" /\ retCount > 1 /\ retCount < cap

(***************************************************************************)
(* Claims about generateSudoku (under Spec).                               *)
(***************************************************************************)
\* The number of filled cells of the returned board.
FilledCount == Cardinality({p \in Pos : valueAt(heap, result, p[1], p[2]) # Empty})

\* The least number of clues a board with one solution can have: 17 on the
\* 9 x 9 board, N on the 4 x 4 board.
MinClues == IF BoxSize = 3 THEN 17 ELSE N

\* C1: every board generateSudoku returns has exactly one solution:
\* getSolutionCount(board, 2) = 1.
C1_ReturnedBoardIsUnique ==
    pc = "done" => getSolutionCount(heap, result, 2).count = 1

\* C1 witness: a board is returned after the dig removed several cells.
C1_Witness == pc = "done" /\ maxTries >= 1 /\ removed >= N

\* The returned board has NN - removed filled cells, the filled cells are
\* static and the empty ones are not.
ReturnedShape ==
    /\ FilledCount = NN - removed
    /\ \A p \in Pos :
          staticAt(heap, result, p[1], p[2]) = (valueAt(heap, result, p[1], p[2]) # Empty)

\* C2 as stated: the returned board has 81 - removed filled cells with
\* 0 <= removed <= 81 - minFilled, so at least minFilled filled cells, the
\* filled cells static and the empty cells not.
C2_RemovedWithinTarget ==
    pc = "done" =>
        /\ ReturnedShape
        /\ 0 <= removed
        /\ removed <= NN - minFilled
        /\ FilledCount >= minFilled

\* C2 amended: the same with removed <= max(0, 81 - minFilled), so at least
\* min(minFilled, 81) filled cells.
C2_RemovedWithinBoard ==
    pc = "done" =>
        /\ ReturnedShape
        /\ 0 <= removed
        /\ removed <= Max2(0, NN - minFilled)
        /\ FilledCount >= Min2(minFilled, NN)

\* C2 witness: a board returned with the target reached and cells removed.
C2_Witness == pc = "done" /\ removed > 0 /\ removed = NN - minFilled

\* C3: for a target within the board and a budget of at least one attempt,
\* an attempt whose dig stopped short of the target is not returned while
\* attempts are left: a board returned without relaxation has exactly
\* minFilled clues.
C3_ShortAttemptIsRetried ==
    (/\ pc = "done"
     /\ depth = 0
     /\ minFilled \in MinClues .. NN
     /\ maxTries >= 1
     /\ attempt < maxTries)
        => (removed = NN - minFilled /\ FilledCount = minFilled)

\* C4: generateSudoku returns a board for every minFilled and maxTries: the
\* relaxed retry is entered boundedly often and no call ends in a hard
\* failure (here the RangeError of an exhausted call stack).
C4_NoHardFailure == pc # "overflow"

\* The positions the dig loop has passed, and those it has yet to reach.
triedPositions == {positions[k] : k \in 1 .. (posIdx - 1)}
untriedPositions == {positions[k] : k \in posIdx .. NN}

\* C23: in the dig every position is tried at most once; a cell stays
\* cleared only if the board then has exactly one solution and otherwise
\* holds again the digit it had: every non-empty cell holds the digit of
\* the Phase A board, the cleared cells are positions already tried, as
\* many as removed counts, the Phase A board is the only completion, and
\* solveSudoku of the returned puzzle is the Phase A board.
C23_DigKeepsFilledBoard ==
    /\ pc = "dig" =>
          /\ triedPositions \cap untriedPositions = {}
          /\ triedPositions \cup untriedPositions = Pos
    /\ pc \in {"dig", "done"} =>
          /\ Agrees(filledBoard, valuesOf(heap, full))
          /\ {p \in Pos : valueAt(heap, full, p[1], p[2]) = Empty} \subseteq triedPositions
          /\ Cardinality({p \in Pos : valueAt(heap, full, p[1], p[2]) = Empty}) = removed
          /\ Completions(valuesOf(heap, full)) = {filledBoard}
    /\ pc = "done" =>
          LET solution == solveSudoku(heap, result)
          IN /\ solution.grid # NullGrid
             /\ valuesOf(solution.heap, solution.grid) = filledBoard

\* C23 witness: a puzzle is returned whose dig cleared cells and restored
\* at least one cell it had tried.
C23_Witness ==
    /\ pc = "done"
    /\ removed > 0
    /\ removed < Cardinality(triedPositions)
    /\ result = full

(***************************************************************************)
(* The checks isValid, isValidForCell, isGridComplete and isGridSolved,    *)
(* each called once on a board.                                            *)
(***************************************************************************)
\* Most cells emptied in a board handed to a check.
MaxQueryHoles == 1

\* A solved board with two cells of one row swapped.
SwapCells(m, row, c1, c2) ==
    [m EXCEPT ![row] = [m[row] EXCEPT ![c1] = m[row][c2], ![c2] = m[row][c1]]]

SwapBoards ==
    {SwapCells(Seed, row, c1, c2) : row \in Idx, c1 \in Idx, c2 \in Idx}

\* Boards handed to the checks: the seed with cells of the first band
\* emptied and one overwritten, the seed with two cells of a row swapped, and
\* boards with a few digits in the first box.
QueryBoards ==
    {Overwrite(Punch(Seed, H), p, d) :
        H \in HoleSets(Band, MaxQueryHoles), p \in Band, d \in Digits}
    \cup SwapBoards \cup SparseBoards(MaxClues)

QueryInit ==
    /\ \E m \in QueryBoards : heap = HeapOf(m)
    /\ input = BaseGrid
    /\ ppc = "input"
    /\ before = <<>>
    /\ retGrid = NullGrid
    /\ retCount = 0 - 1
    /\ cap = 0
    /\ GenIdle
    /\ QueryIdle
    /\ UiIdle
    /\ StoreIdle
    /\ CallIdle

\* isValid(grid, row, col, value) with a digit, as fillSudoku, solveSudoku
\* and getSolutionCount pass it.
CallIsValid ==
    /\ ppc = "input"
    /\ \E row \in Idx, col \in Idx, value \in Digits :
          /\ query' = [fn |-> "isValid", row |-> row, col |-> col, value |-> value]
          /\ answer' = isValid(heap, input, row, col, value)
    /\ ppc' = "queried"
    /\ UNCHANGED <<heap, input, notQuery>>

\* isValidForCell(props.grid, row, col, value) with a digit or ''.
CallIsValidForCell ==
    /\ ppc = "input"
    /\ \E row \in Idx, col \in Idx, value \in Digits \cup {Empty} :
          /\ query' = [fn |-> "isValidForCell", row |-> row, col |-> col,
                       value |-> value]
          /\ answer' = isValidForCell(deref(heap, input), row, col, value)
    /\ ppc' = "queried"
    /\ UNCHANGED <<heap, input, notQuery>>

\* isGridComplete(grid)
CallIsGridComplete ==
    /\ ppc = "input"
    /\ query' = [NoQuery EXCEPT !.fn = "isGridComplete"]
    /\ answer' = isGridComplete(heap, input)
    /\ ppc' = "queried"
    /\ UNCHANGED <<heap, input, notQuery>>

\* isGridSolved(grid)
CallIsGridSolved ==
    /\ ppc = "input"
    /\ query' = [NoQuery EXCEPT !.fn = "isGridSolved"]
    /\ answer' = isGridSolved(heap, input)
    /\ ppc' = "queried"
    /\ UNCHANGED <<heap, input, notQuery>>

QueryNext ==
    \/ CallIsValid
    \/ CallIsValidForCell
    \/ CallIsGridComplete
    \/ CallIsGridSolved

QuerySpec == QueryInit /\ [][QueryNext]_vars

\* C14: for every row, every pair of distinct columns of it and every digit
\* d, solveSudoku on the board holding d in those two cells and empty
\* elsewhere returns null.
C14_TwinInRowIsUnsolvable ==
    (ppc = "solved" /\ InVals \in TwinBoards) => retGrid = NullGrid

\* solveSudoku returned null on a board whose two equal digits lie in
\* different boxes of one row.
C14_Witness ==
    /\ ppc = "solved"
    /\ InVals = Twin(N - 1, 0, N - 1, toString(N))
    /\ retGrid = NullGrid

(***************************************************************************)
(* Claims about the checks (under QuerySpec).                              *)
(***************************************************************************)
\* The values of the board the check was called on.
QVals == valuesOf(heap, input)
Asked(fn) == ppc = "queried" /\ query.fn = fn

\* The cells of the row, the column and the box of a position.
unitsOf(row, col) ==
    rowGroup(row) \cup colGroup(col) \cup boxGroup(row \div BoxSize, col \div BoxSize)

\* Some cell of S holds value in matrix m.
heldIn(m, S, value) == \E p \in S : m[p[1]][p[2]] = value

\* C11 as claimed: isValid(grid, row, col, value) is true iff no cell other
\* than (row, col) of the same row, column or box holds value; what the cell
\* (row, col) holds makes no difference.
C11_OwnCellIgnored ==
    Asked("isValid") =>
        (answer <=> ~heldIn(QVals, unitsOf(query.row, query.col) \ {<<query.row, query.col>>},
                            query.value))

\* C11 amended: isValid is true iff no cell of the row, the column or the
\* box holds value, the cell (row, col) included: when (row, col) does not
\* hold value the result is the claimed one, when it does the result is
\* false.
C11_NoCellOfUnitsHolds ==
    Asked("isValid") =>
        /\ answer <=> ~heldIn(QVals, unitsOf(query.row, query.col), query.value)
        /\ QVals[query.row][query.col] # query.value =>
              (answer <=> ~heldIn(QVals, unitsOf(query.row, query.col)
                                          \ {<<query.row, query.col>>}, query.value))
        /\ QVals[query.row][query.col] = query.value => ~answer

\* isValid was asked about the digit the cell itself holds, no other cell
\* of its row, column and box holds it, and the answer was false.
C11_Witness ==
    /\ Asked("isValid")
    /\ QVals[query.row][query.col] = query.value
    /\ ~heldIn(QVals, unitsOf(query.row, query.col) \ {<<query.row, query.col>>},
               query.value)
    /\ ~answer

\* C12: on an empty cell and a digit, isValid and isValidForCell return the
\* same result.
C12_ChecksAgreeOnEmptyCell ==
    (ppc = "queried" /\ query.fn \in {"isValid", "isValidForCell"}
       /\ query.value \in Digits /\ QVals[query.row][query.col] = Empty) =>
        /\ answer = isValid(heap, input, query.row, query.col, query.value)
        /\ answer = isValidForCell(deref(heap, input), query.row, query.col, query.value)

\* isValidForCell rejected a digit on an empty cell only because the box
\* holds the digit.
C12_Witness ==
    /\ Asked("isValidForCell")
    /\ query.value \in Digits
    /\ QVals[query.row][query.col] = Empty
    /\ ~answer
    /\ ~heldIn(QVals, rowGroup(query.row) \cup colGroup(query.col), query.value)

\* C13: isGridComplete is true iff every cell is non-empty; isGridSolved is
\* true iff the board is complete and no value occurs twice in a row, a
\* column or a box; a solved board with two cells of a row swapped so that
\* a duplicate arises is complete and not solved.
C13_CompleteAndSolved ==
    /\ Asked("isGridComplete") =>
          /\ answer <=> CompleteVals(QVals)
          /\ (QVals \in SwapBoards /\ QVals # Seed) => answer
    /\ Asked("isGridSolved") =>
          /\ answer <=> (CompleteVals(QVals) /\ ConsistentVals(QVals))
          /\ (QVals \in SwapBoards /\ QVals # Seed) => ~answer

\* isGridSolved was asked about a solved board with two cells of one box
\* row swapped, and answered false.
C13_Witness ==
    /\ Asked("isGridSolved")
    /\ QVals = SwapCells(Seed, 0, 0, 1)
    /\ isGridComplete(heap, input)
    /\ ~answer

(***************************************************************************)
(* SudokuTable.vue (selection, keypad, input elements) and the handlers    *)
(* of App.vue that replace the grid.  props.grid is grid.value of App, and *)
(* an emitted update:grid is assigned to it by updateGrid within the       *)
(* handler that emitted it.  A grid is a matrix of cells here: the         *)
(* handlers build new arrays and new cell objects, none writes into a      *)
(* cell.                                                                   *)
(***************************************************************************)
\* The messages of solveError.
Unsolvable == "Toto sudoku neni resitelne."
GenerateFailed == "Nepodarilo se vygenerovat sudoku."

\* The cells the user clicks and types into: two of one box, two of one row.
UserCells == {<<0, 0>>, <<1, 1>>, <<0, BoxSize>>}

\* What the user can type into an input element besides a digit and '':
\* strings the pattern /^[1-9]?$/ does not match.
OtherInputs == {"0", "x"}

\* The values of a matrix of cells.
cellValues(grid) == [row \in Idx |-> [col \in Idx |-> grid[row][col].value]]

\* The puzzle with the values of m, its clues static as generateSudoku
\* marks them.
puzzleOf(m) ==
    [row \in Idx |-> [col \in Idx |-> Cell(m[row][col], m[row][col] # Empty)]]

\* createEmptyGrid() as a matrix of cells.
emptyGridValue == LET r == createEmptyGrid(<<>>) IN deref(r.heap, r.grid)

\* solveSudoku(grid.value) on a matrix of cells: its cells are laid out as
\* cell objects, the solver runs on them, and the board it returns is read
\* back.
solveGridValue(grid) ==
    LET h == [i \in 1 .. NN |-> grid[(i - 1) \div N][(i - 1) % N]]
        r == solveSudoku(h, BaseGrid)
    IN IF r.grid = NullGrid THEN NullGrid ELSE deref(r.heap, r.grid)

\* A board without duplicate and without solution: the first row holds
\* every digit but the last after an empty first cell, and the last digit
\* is below that cell.
DeadEnd ==
    [row \in Idx |-> [col \in Idx |->
        IF row = 0 /\ col > 0 THEN toString(col)
        ELSE IF row = 1 /\ col = 0 THEN toString(N)
        ELSE Empty]]

\* Boards the generation hands to the app, and grids of saved games.
GeneratedBoards ==
    {puzzleOf(Punch(Seed, UserCells)), puzzleOf(Punch(Seed, UserCells \ {<<0, BoxSize>>}))}
SavedBoards ==
    {puzzleOf(Punch(Seed, {<<0, BoxSize>>})),
     [puzzleOf(Punch(Seed, UserCells)) EXCEPT ![0][0].value = Seed[0][0]]}

UiInit ==
    /\ heap = <<>>
    /\ PureIdle
    /\ GenIdle
    /\ QueryIdle
    /\ StoreIdle
    /\ CallIdle
    /\ gridValue = emptyGridValue
    /\ selectedRow = NullIndex
    /\ selectedCol = NullIndex
    /\ solveError = NullMessage
    /\ lastEvent = NoEvent
    /\ prevGrid = NullGrid

\* Mutant of hasEditableSelection: isStatic of the selected cell is not read.
hasSelection == selectedRow # NullIndex /\ selectedCol # NullIndex

\* hasEditableSelection: a cell is selected and it is not static.  The
\* keypad buttons are disabled unless it holds.
hasEditableSelection ==
    IF selectedRow = NullIndex \/ selectedCol = NullIndex THEN FALSE
    ELSE ~gridValue[selectedRow][selectedCol].isStatic

\* props.grid.map(...): the grid with { ...c, value } at [row][col].
withValue(grid, row, col, value) == [grid EXCEPT ![row][col].value = value]

\* selectCell(row, col): a static cell clears the selection.
selectCell(row, col) ==
    /\ IF gridValue[row][col].isStatic
       THEN selectedRow' = NullIndex /\ selectedCol' = NullIndex
       ELSE selectedRow' = row /\ selectedCol' = col
    /\ lastEvent' = NoEvent
    /\ prevGrid' = NullGrid
    /\ UNCHANGED <<gridValue, solveError, notUi>>

\* A click on a cell, or the focus of its input element.
CellClicked == \E p \in UserCells : selectCell(p[1], p[2])

\* An edit handler ends: with emit('update:grid', newGrid), which assigns
\* grid.value, or without.
handlerEnds(name, row, col, value, emitted, newGrid) ==
    /\ lastEvent' = [handler |-> name, row |-> row, col |-> col, value |-> value,
                     emitted |-> emitted]
    /\ prevGrid' = gridValue
    /\ gridValue' = IF emitted THEN newGrid ELSE gridValue
    /\ UNCHANGED <<selectedRow, selectedCol, solveError, notUi>>

\* Mutant of handleKeypadInput: isValidForCell is not asked.
handleKeypadInputUnchecked(value) ==
    handlerEnds("handleKeypadInput", selectedRow, selectedCol, value,
                selectedRow # NullIndex /\ selectedCol # NullIndex,
                withValue(gridValue, selectedRow, selectedCol, value))

\* handleKeypadInput(value)
handleKeypadInput(value) ==
    IF selectedRow = NullIndex \/ selectedCol = NullIndex
    THEN handlerEnds("handleKeypadInput", selectedRow, selectedCol, value, FALSE, gridValue)
    ELSE IF value = Empty
    THEN handlerEnds("handleKeypadInput", selectedRow, selectedCol, value, TRUE,
                     withValue(gridValue, selectedRow, selectedCol, Empty))
    ELSE handlerEnds("handleKeypadInput", selectedRow, selectedCol, value,
                     isValidForCell(gridValue, selectedRow, selectedCol, value),
                     withValue(gridValue, selectedRow, selectedCol, value))

\* A click on an enabled button of the keypad: a digit, or the delete
\* button.
KeypadClicked ==
    /\ hasEditableSelection
    /\ \E value \in Digits \cup {Empty} : handleKeypadInput(value)

\* handleInputChange(row, col, event), value being event.target.value.
handleInputChange(row, col, value) ==
    IF value \notin Digits \cup {Empty}
    THEN handlerEnds("handleInputChange", row, col, value, FALSE, gridValue)
    ELSE IF value = Empty
    THEN handlerEnds("handleInputChange", row, col, value, TRUE,
                     withValue(gridValue, row, col, Empty))
    ELSE handlerEnds("handleInputChange", row, col, value,
                     isValidForCell(gridValue, row, col, value),
                     withValue(gridValue, row, col, value))

\* The user types into an input element; the element of a static cell is
\* readonly and fires no input event.
InputTyped ==
    \E p \in UserCells, value \in Digits \cup {Empty} \cup OtherInputs :
        /\ ~gridValue[p[1]][p[2]].isStatic
        /\ handleInputChange(p[1], p[2], value)

\* App replaces grid.value; the selection of the table stays.
gridReplaced(newGrid, message) ==
    /\ gridValue' = newGrid
    /\ solveError' = message
    /\ lastEvent' = NoEvent
    /\ prevGrid' = NullGrid
    /\ UNCHANGED <<selectedRow, selectedCol, notUi>>

\* handleEmptyGrid
handleEmptyGrid == gridReplaced(emptyGridValue, solveError)

\* handleSolve ends, with grid.value and solveError.value as given; the
\* grid it was called on is remembered.
solveEnds(newGrid, message) ==
    /\ gridValue' = newGrid
    /\ solveError' = message
    /\ lastEvent' = [NoEvent EXCEPT !.handler = "handleSolve"]
    /\ prevGrid' = gridValue
    /\ UNCHANGED <<selectedRow, selectedCol, notUi>>

\* Mutant of handleSolve: a grid without solution is replaced by the empty
\* grid.
handleSolveResets ==
    LET solution == solveGridValue(gridValue)
    IN IF solution # NullGrid
       THEN solveEnds(solution, NullMessage)
       ELSE solveEnds(emptyGridValue, Unsolvable)

\* handleSolve
handleSolve ==
    LET solution == solveGridValue(gridValue)
    IN IF solution # NullGrid
       THEN solveEnds(solution, NullMessage)
       ELSE solveEnds(gridValue, Unsolvable)

\* handleLoad(game): loadGame copies the grid of the game.
handleLoad == \E game \in SavedBoards : gridReplaced(game, NullMessage)

\* handleGenerate, when generateSudokuAsync has resolved with a board.
GridGenerated == \E board \in GeneratedBoards : gridReplaced(board, NullMessage)

UiNext ==
    \/ CellClicked
    \/ KeypadClicked
    \/ InputTyped
    \/ handleEmptyGrid
    \/ handleSolve
    \/ handleLoad
    \/ GridGenerated

UiSpec == UiInit /\ [][UiNext]_vars

\* handleSolve on the grids the user may have in front of them: generated
\* and loaded boards, and a board without solution, its digits typed by
\* the user or loaded as clues, each with or without an error shown; the
\* user edits and asks for the solution.
SolveBoards ==
    GeneratedBoards \cup SavedBoards
    \cup {puzzleOf(DeadEnd), [row \in Idx |-> [col \in Idx |-> Cell(DeadEnd[row][col], FALSE)]]}
SolveInit ==
    /\ heap = <<>>
    /\ PureIdle
    /\ GenIdle
    /\ QueryIdle
    /\ StoreIdle
    /\ CallIdle
    /\ gridValue \in SolveBoards
    /\ selectedRow = NullIndex
    /\ selectedCol = NullIndex
    /\ solveError \in {NullMessage, Unsolvable, GenerateFailed}
    /\ lastEvent = NoEvent
    /\ prevGrid = NullGrid
SolveNext == CellClicked \/ KeypadClicked \/ InputTyped \/ handleSolve
SolveSpec == SolveInit /\ [][SolveNext]_vars

(***************************************************************************)
(* Claims about the edits of the user (under UiSpec).                      *)
(***************************************************************************)
\* The last step was a call of an edit handler.
Edited == lastEvent.handler \in {"handleKeypadInput", "handleInputChange"}

\* The digit of the last edit was held by another cell of the row, the
\* column or the box of its target when the handler was called.
WouldDuplicate ==
    /\ lastEvent.value \in Digits
    /\ heldIn(cellValues(prevGrid),
              unitsOf(lastEvent.row, lastEvent.col) \ {<<lastEvent.row, lastEvent.col>>},
              lastEvent.value)

\* C15: from a consistent board, the board stays consistent under the edits
\* of handleInputChange and handleKeypadInput: an edit that would duplicate
\* a digit emits no update and leaves every cell as it was, an accepted
\* edit changes the value of the target cell only (the other cells and
\* every isStatic stay), and a clearing edit is always accepted.
C15_EditsKeepBoardConsistent ==
    /\ ConsistentVals(cellValues(gridValue))
    /\ Edited =>
          /\ WouldDuplicate => ~lastEvent.emitted
          /\ ~lastEvent.emitted => gridValue = prevGrid
          /\ lastEvent.emitted =>
                gridValue = [prevGrid EXCEPT ![lastEvent.row][lastEvent.col].value =
                                                 lastEvent.value]
          /\ lastEvent.value = Empty =>
                /\ lastEvent.emitted
                /\ gridValue[lastEvent.row][lastEvent.col].value = Empty

\* The keypad was given a digit that another cell of the box holds, and no
\* cell of the row or the column: nothing was emitted.
C15_Witness ==
    /\ lastEvent.handler = "handleKeypadInput"
    /\ WouldDuplicate
    /\ ~heldIn(cellValues(prevGrid),
               (rowGroup(lastEvent.row) \cup colGroup(lastEvent.col))
                   \ {<<lastEvent.row, lastEvent.col>>},
               lastEvent.value)
    /\ ~lastEvent.emitted
    /\ gridValue = prevGrid

\* C16: no edit of the user changes the value of a static cell, whatever
\* the interleaving of selectCell, the edit handlers and the replacements
\* of the grid (generate, load, solve, empty grid): an edit that emitted
\* had a target that was not static, and every static cell holds the value
\* it held before the edit.
C16_StaticCellsNotEdited ==
    Edited =>
        /\ lastEvent.emitted => ~prevGrid[lastEvent.row][lastEvent.col].isStatic
        /\ \A p \in Pos :
              prevGrid[p[1]][p[2]].isStatic =>
                  /\ gridValue[p[1]][p[2]].value = prevGrid[p[1]][p[2]].value
                  /\ gridValue[p[1]][p[2]].isStatic

\* A cell was selected while editable and the grid was then replaced: the
\* selected position holds a static cell.
C16_Witness ==
    /\ selectedRow # NullIndex
    /\ selectedCol # NullIndex
    /\ gridValue[selectedRow][selectedCol].isStatic
    /\ gridValue[selectedRow][selectedCol].value # Empty

(***************************************************************************)
(* Claim about handleSolve (under SolveSpec).                              *)
(***************************************************************************)
\* The last step was a call of handleSolve.
SolveClicked == lastEvent.handler = "handleSolve"

\* C24: handleSolve on a grid for which solveSudoku returns null leaves
\* the grid as it was and sets the error message; on a grid that has a
\* solution it replaces the grid by a solved board, clears the error, and
\* every cell keeps its isStatic flag and every filled cell its value.
C24_SolveKeepsOrReplaces ==
    SolveClicked =>
        /\ solveGridValue(prevGrid) = NullGrid =>
              /\ gridValue = prevGrid
              /\ solveError = Unsolvable
        /\ Completions(cellValues(prevGrid)) # {} =>
              /\ cellValues(gridValue) \in Completions(cellValues(prevGrid))
              /\ solveError = NullMessage
              /\ \A p \in Pos :
                    gridValue[p[1]][p[2]].isStatic = prevGrid[p[1]][p[2]].isStatic

\* C24 witness: handleSolve was called on a grid without duplicate and
\* without solution, and left it in place with the message.
C24_Witness ==
    /\ SolveClicked
    /\ Completions(cellValues(prevGrid)) = {}
    /\ ConsistentVals(cellValues(prevGrid))
    /\ gridValue = prevGrid
    /\ solveError = Unsolvable

(***************************************************************************)
(* Values that come from outside: what JSON.parse yields of a stored text  *)
(* or of the body of an API response.  Every value carries its type; an    *)
(* array holds its items under the indices 0 .. length - 1, an object its  *)
(* properties as a record.  Inside the app a grid is the untagged matrix   *)
(* of cells, of whatever dimensions it has.                                *)
(***************************************************************************)
JNull == [t |-> "null"]
JUndefined == [t |-> "undefined"]
JNum(n) == [t |-> "number", n |-> n]
JStr(str) == [t |-> "string", s |-> str]
JBool(b) == [t |-> "boolean", b |-> b]
JArr(items) == [t |-> "array", items |-> items]
JObj(fields) == [t |-> "object", fields |-> fields]

\* Array.isArray(v), v.length, key in v, v[key]
isArray(v) == v.t = "array"
length(v) == Cardinality(DOMAIN v.items)
hasKey(v, key) == v.t = "object" /\ key \in DOMAIN v.fields
prop(v, key) == IF hasKey(v, key) THEN v.fields[key] ELSE JUndefined

\* !v
falsy(v) ==
    \/ v.t \in {"null", "undefined"}
    \/ v = JStr(Empty)
    \/ v = JNum(0)
    \/ v = JBool(FALSE)

\* The array with the items of a 0-based list cut to its first k items.
firstItems(items, k) == [i \in {j \in DOMAIN items : j < k} |-> items[i]]

\* JSON.stringify then JSON.parse of a grid of the app, and of its cells.
jsonOfCell(cell) ==
    JObj([key \in DOMAIN cell |->
            IF key = "isStatic" THEN JBool(cell[key]) ELSE JStr(cell[key])])
jsonOfGrid(grid) ==
    JArr([row \in DOMAIN grid |->
            JArr([col \in DOMAIN grid[row] |-> jsonOfCell(grid[row][col])])])

\* What a parsed value is once the app holds it as a cell or as a grid: a
\* number n as cell value is written "#n", no string of the app.
cellOfJson(v) ==
    [key \in DOMAIN v.fields |->
        LET f == v.fields[key]
        IN IF f.t = "boolean" THEN f.b
           ELSE IF f.t = "string" THEN f.s
           ELSE IF f.t = "number" THEN "#" \o toString(f.n)
           ELSE f.t]
gridOfJson(v) ==
    [row \in DOMAIN v.items |->
        [col \in DOMAIN v.items[row].items |-> cellOfJson(v.items[row].items[col])]]

\* A grid of the app has the shape of a board: 9 rows of 9 cells, each with
\* a value and an isStatic.
WellFormed(grid) ==
    /\ DOMAIN grid = Idx
    /\ \A row \in Idx :
          /\ DOMAIN grid[row] = Idx
          /\ \A col \in Idx : {"value", "isStatic"} \subseteq DOMAIN grid[row][col]

\* isValidGrid(data) of App
isValidGrid(data) ==
    IF ~isArray(data) \/ length(data) # N THEN FALSE
    ELSE \A i \in DOMAIN data.items :
            LET row == data.items[i]
            IN /\ isArray(row)
               /\ length(row) = N
               /\ \A j \in DOMAIN row.items :
                     LET cell == row.items[j]
                     IN /\ cell.t = "object"
                        /\ hasKey(cell, "value")
                        /\ hasKey(cell, "isStatic")

\* isGridEmpty(grid) of App: every cell has a falsy value.
isGridEmpty(data) ==
    \A i \in DOMAIN data.items : \A j \in DOMAIN data.items[i].items :
        falsy(prop(data.items[i].items[j], "value"))

\* isValidSavedGamesArray(data)
isValidSavedGamesArray(data) ==
    IF ~isArray(data) THEN FALSE
    ELSE \A k \in DOMAIN data.items :
            LET game == data.items[k]
            IN IF game.t # "object" THEN FALSE
               ELSE IF prop(game, "id").t # "number" THEN FALSE
               ELSE IF ~isArray(prop(game, "grid")) THEN FALSE
               ELSE IF length(prop(game, "grid")) # N THEN FALSE
               ELSE \A i \in DOMAIN prop(game, "grid").items :
                       LET row == prop(game, "grid").items[i]
                       IN IF ~isArray(row) \/ length(row) # N THEN FALSE
                          ELSE \A j \in DOMAIN row.items :
                                  LET cell == row.items[j]
                                  IN /\ cell.t \in {"object", "array"}
                                     /\ prop(cell, "value").t = "string"
                                     /\ prop(cell, "isStatic").t = "boolean"

\* What a key of localStorage holds: nothing (getItem returns null), a text
\* JSON.parse throws on, or a text, written as the value it parses to.
Absent == [t |-> "absent"]
Unparsable == [t |-> "unparsable"]

\* The validator argument of getFromStorage: a validator, or none (null),
\* and validator(parsed) of it.
noValidator == "null"
savedGamesValidator == "isValidSavedGamesArray"
accepts(validator, data) ==
    IF validator = noValidator THEN TRUE ELSE isValidSavedGamesArray(data)

\* getFromStorage(key, defaultValue, validator): the value returned and
\* localStorage afterwards.  A text that does not parse, or whose value the
\* validator rejects, is removed and the default returned.
getFromStorage(store, key, defaultValue, validator) ==
    IF store[key] = Absent THEN [value |-> defaultValue, store |-> store]
    ELSE IF store[key] = Unparsable
    THEN [value |-> defaultValue, store |-> [store EXCEPT ![key] = Absent]]
    ELSE IF ~accepts(validator, store[key])
    THEN [value |-> defaultValue, store |-> [store EXCEPT ![key] = Absent]]
    ELSE [value |-> store[key], store |-> store]

\* setToStorage(key, value), value already written as JSON.
setToStorage(store, key, json) == [store EXCEPT ![key] = json]

(***************************************************************************)
(* Saved games.  savedGames.value and trash.value are sequences of games;  *)
(* a game is its id, its grid and its deletedAt (absent: null).  Time is   *)
(* counted in days.                                                        *)
(***************************************************************************)
\* TRASH_AUTO_REMOVE_MS = 7 * 24 * 60 * 60 * 1000, in days.
TRASH_AUTO_REMOVE_DAYS == 7

Game(id, grid, deletedAt) == [id |-> id, grid |-> grid, deletedAt |-> deletedAt]

\* JSON.stringify of a game and of a list of games, and what the app holds
\* of a parsed list.
jsonOfGame(game) ==
    IF game.deletedAt = NullIndex
    THEN JObj([id |-> JNum(game.id), grid |-> jsonOfGrid(game.grid)])
    ELSE JObj([id |-> JNum(game.id), grid |-> jsonOfGrid(game.grid),
               deletedAt |-> JNum(game.deletedAt)])
jsonOfGames(games) ==
    JArr([k \in 0 .. (Len(games) - 1) |-> jsonOfGame(games[k + 1])])
gameOfJson(v) ==
    Game(v.fields.id.n, gridOfJson(v.fields.grid),
         IF hasKey(v, "deletedAt") THEN v.fields.deletedAt.n ELSE NullIndex)
gamesOfJson(v) == [k \in 1 .. length(v) |-> gameOfJson(v.items[k - 1])]

\* The filter of cleanupTrash: !game.deletedAt || now - game.deletedAt <
\* TRASH_AUTO_REMOVE_MS.
keptInTrash(game, t) ==
    \/ game.deletedAt = NullIndex
    \/ game.deletedAt = 0
    \/ t - game.deletedAt < TRASH_AUTO_REMOVE_DAYS

\* cleanupTrash(): trash.value and localStorage afterwards.
cleanupTrash(tr, store, t) ==
    LET kept(game) == keptInTrash(game, t)
        filtered == SelectSeq(tr, kept)
    IN IF Len(filtered) < Len(tr)
       THEN [trash |-> filtered, store |-> setToStorage(store, "TRASH", jsonOfGames(filtered))]
       ELSE [trash |-> tr, store |-> store]

(***************************************************************************)
(* What localStorage holds when the app is opened.                         *)
(***************************************************************************)
\* A board written by the app, and the empty board.
GoodJson == jsonOfGrid(puzzleOf(Punch(Seed, UserCells)))
EmptyJson == jsonOfGrid(emptyGridValue)

\* Array v with item i replaced.
withItem(v, i, item) == JArr([v.items EXCEPT ![i] = item])

\* Values that are no board: a row missing, a cell missing, a cell without
\* isStatic, a cell that is null, a row that is no array, no array at all.
MalformedJson ==
    {JArr(firstItems(GoodJson.items, N - 1)),
     withItem(GoodJson, 0, JArr(firstItems(GoodJson.items[0].items, N - 1))),
     withItem(GoodJson, 0, withItem(GoodJson.items[0], 0, JObj([value |-> JStr("1")]))),
     withItem(GoodJson, 0, withItem(GoodJson.items[0], 0, JNull)),
     withItem(GoodJson, 0, JStr("row")),
     JObj([length |-> JNum(N)]),
     JNull}

\* A board whose cell values are numbers: it has the shape of a board, and
\* is no grid of a saved game.
NumericJson ==
    withItem(GoodJson, 0,
             withItem(GoodJson.items[0], 1,
                      JObj([value |-> JNum(1), isStatic |-> JBool(TRUE)])))

\* The list of one game with the grid g, and lists that are no games.
oneGameJson(idJson, g, deletedAt) ==
    JArr([k \in {0} |-> JObj([id |-> idJson, grid |-> g, deletedAt |-> JNum(deletedAt)])])

CurrentGridTexts == {Absent, Unparsable, GoodJson, EmptyJson} \cup MalformedJson
GamesTexts ==
    {Absent, Unparsable, JArr(<<>>), JNull, jsonOfGames(<<Game(1, gridOfJson(GoodJson), NullIndex)>>),
     oneGameJson(JStr("1"), GoodJson, 1), oneGameJson(JNum(1), NumericJson, 1)}
    \cup {oneGameJson(JNum(1), g, 1) : g \in MalformedJson}
TrashTexts ==
    {Unparsable,
     jsonOfGames(<<Game(2, gridOfJson(GoodJson), 1)>>),
     jsonOfGames(<<Game(2, gridOfJson(GoodJson), 1),
                   Game(3, gridOfJson(EmptyJson), TRASH_AUTO_REMOVE_DAYS + 1)>>)}
    \cup {oneGameJson(JNum(2), g, 1) : g \in MalformedJson}

\* One key holds one of the texts above, the other keys hold nothing.
NoStorage == [GAMES |-> Absent, TRASH |-> Absent, CURRENT_GRID |-> Absent]
StorageInputs ==
    {[NoStorage EXCEPT !.CURRENT_GRID = x] : x \in CurrentGridTexts}
    \cup {[NoStorage EXCEPT !.GAMES = x] : x \in GamesTexts}
    \cup {[NoStorage EXCEPT !.TRASH = x] : x \in TrashTexts}

(***************************************************************************)
(* The remote API: what one query is answered with.                        *)
(***************************************************************************)
\* Most grids in one answer of the API.
MaxApiGrids == 2

Difficulties == {"easy", "medium", "hard"}
\* DIFFICULTY_MAP_TO_API and DIFFICULTY_MAP_FROM_API
DIFFICULTY_MAP_TO_API(d) ==
    IF d = "easy" THEN "Easy" ELSE IF d = "hard" THEN "Hard" ELSE "Medium"
DIFFICULTY_MAP_FROM_API(d) ==
    IF d = "Easy" THEN "easy" ELSE IF d = "Hard" THEN "hard" ELSE "medium"

\* The number a cell of the API holds for a value of the app (0: empty).
numberOf(value) ==
    IF value = Empty THEN 0 ELSE CHOOSE n \in 1 .. N : toString(n) = value

\* The puzzle of the seed as the API sends it, and values that are no board.
GoodApiGrid ==
    JArr([row \in Idx |-> JArr([col \in Idx |->
            JNum(numberOf(Punch(Seed, UserCells)[row][col]))])])
ApiValues ==
    {GoodApiGrid,
     JArr(firstItems(GoodApiGrid.items, N - 1)),
     withItem(GoodApiGrid, 0, JArr(firstItems(GoodApiGrid.items[0].items, N - 1))),
     withItem(GoodApiGrid, 0, JNull),
     JNull}

ApiGrid == [difficulty : {"Easy", "Medium", "Hard"}, value : ApiValues]
ApiOutcomes ==
    {[kind |-> k, grids |-> <<>>] : k \in {"rejected", "http-error", "invalid"}}
    \cup {[kind |-> "grids", grids |-> g] :
            g \in UNION {[1 .. n -> ApiGrid] : n \in 1 .. MaxApiGrids}}

\* transformApiGridToInternal(apiGrid) throws a TypeError: apiGrid or a row
\* of it has no map.
transformThrows(apiGrid) ==
    \/ ~isArray(apiGrid)
    \/ \E i \in DOMAIN apiGrid.items : ~isArray(apiGrid.items[i])

\* transformApiGridToInternal(apiGrid)
transformApiGridToInternal(apiGrid) ==
    [row \in DOMAIN apiGrid.items |->
        [col \in DOMAIN apiGrid.items[row].items |->
            LET cell == apiGrid.items[row].items[col]
            IN Cell(IF cell = JNum(0) THEN Empty ELSE toString(cell.n), cell # JNum(0))]]

\* fetchSudoku(difficulty), given what the API answered: every failure is
\* caught and null returned.
fetchSudoku(outcome, d) ==
    IF outcome.kind # "grids" THEN ApiNull
    ELSE LET grids == outcome.grids
             targetDifficulty == DIFFICULTY_MAP_TO_API(d)
             found == {k \in 1 .. Len(grids) : grids[k].difficulty = targetDifficulty}
         IN IF found = {} THEN ApiNull
            ELSE LET selectedGrid == grids[CHOOSE k \in found : \A j \in found : k <= j]
                 IN IF transformThrows(selectedGrid.value) THEN ApiNull
                    ELSE [isNull |-> FALSE,
                          grid |-> transformApiGridToInternal(selectedGrid.value),
                          difficulty |-> DIFFICULTY_MAP_FROM_API(selectedGrid.difficulty)]

(***************************************************************************)
(* The app is opened, and boards are generated: onMounted of               *)
(* useSudokuGames and of App, handleGenerate, generateSudoku and           *)
(* generateWithWorker of useSudokuWorker, the worker, its timeout.  A step *)
(* runs a handler up to its next await.  The worker answers a 'generate'   *)
(* message with a board generateSudoku returns, or with an error.          *)
(***************************************************************************)
\* Most calls of generateSudoku of one run.
MaxCalls == 1

\* What the worker posts.
WorkerResponses ==
    {[type |-> "success", grid |-> board] : board \in GeneratedBoards}
    \cup {[type |-> "error", grid |-> NullGrid]}

AppInit ==
    /\ heap = <<>>
    /\ PureIdle
    /\ GenIdle
    /\ QueryIdle
    /\ gridValue = emptyGridValue
    /\ selectedRow = NullIndex
    /\ selectedCol = NullIndex
    /\ solveError = NullMessage
    /\ lastEvent = NoEvent
    /\ prevGrid = NullGrid
    /\ storage \in StorageInputs
    /\ savedGames = <<>>
    /\ trash = <<>>
    /\ now = TRASH_AUTO_REMOVE_DAYS + 1
    /\ apc = "unmounted"
    /\ caller = "none"
    /\ difficulty = "medium"
    /\ asked = "none"
    /\ isGenerating = FALSE
    /\ apiResult = ApiNull
    /\ localTry = 0
    /\ worker = "none"
    /\ inbox = 0
    /\ mail = <<>>
    /\ timerArmed = FALSE
    /\ timeouts = 0
    /\ shownBefore = NullGrid
    /\ calls = 0
    /\ PoolIdle
    /\ GameIdle

\* grid.value = newGrid, and the watcher of grid that persists it.
gridAssigned(store, newGrid) ==
    /\ gridValue' = newGrid
    /\ storage' = setToStorage(store, "CURRENT_GRID", jsonOfGrid(newGrid))

\* generateSudoku(minFilled, difficulty) up to the await of fetchSudoku; a
\* caller passes difficulty.value or leaves the default 'medium'.
generateStarts(by) ==
    /\ caller' = by
    /\ \E d \in {difficulty, "medium"} : asked' = d
    /\ shownBefore' = gridValue
    /\ isGenerating' = TRUE
    /\ apc' = "api"
    /\ apiResult' = ApiNull
    /\ localTry' = 0
    /\ timeouts' = 0
    /\ calls' = calls + 1

\* onMounted of useSudokuGames, then onMounted of App: the stored grid is
\* shown if it is a non-empty board, otherwise a board is generated.
Mount ==
    /\ apc = "unmounted"
    /\ LET games == getFromStorage(storage, "GAMES", JArr(<<>>), savedGamesValidator)
           trashed == getFromStorage(games.store, "TRASH", JArr(<<>>), savedGamesValidator)
           cleaned == cleanupTrash(gamesOfJson(trashed.value), trashed.store, now)
           savedGrid == getFromStorage(cleaned.store, "CURRENT_GRID", JUndefined, noValidator)
       IN /\ savedGames' = gamesOfJson(games.value)
          /\ trash' = cleaned.trash
          /\ IF ~falsy(savedGrid.value) /\ isValidGrid(savedGrid.value)
                /\ ~isGridEmpty(savedGrid.value)
             THEN /\ gridAssigned(savedGrid.store, gridOfJson(savedGrid.value))
                  /\ apc' = "idle"
                  /\ UNCHANGED <<caller, asked, shownBefore, isGenerating, apiResult,
                                 localTry, timeouts, calls>>
             ELSE /\ generateStarts("mount")
                  /\ storage' = savedGrid.store
                  /\ UNCHANGED gridValue
    /\ UNCHANGED <<solveError, now, difficulty, worker, inbox, mail, timerArmed, notApp>>

\* handleDifficultyChange
handleDifficultyChange ==
    /\ apc # "unmounted"
    /\ \E d \in Difficulties \ {difficulty} : difficulty' = d
    /\ UNCHANGED <<gridValue, solveError, storeVars, apc, caller, asked, isGenerating,
                   apiResult, localTry, worker, inbox, mail, timerArmed, timeouts,
                   shownBefore, calls, notApp>>

\* handleGenerate up to its await; its button is disabled while
\* isGenerating.
handleGenerate ==
    /\ apc = "idle"
    /\ ~isGenerating
    /\ calls < MaxCalls
    /\ generateStarts("user")
    /\ UNCHANGED <<gridValue, solveError, storeVars, difficulty, worker, inbox, mail,
                   timerArmed, notApp>>

\* The call of generateSudoku ends (finally: isGenerating = false) and its
\* caller goes on: onMounted shows the board or, on failure, the empty
\* grid; handleGenerate shows the board or, on failure, sets solveError.
callEnds(ok, board) ==
    /\ isGenerating' = FALSE
    /\ apc' = "idle"
    /\ timerArmed' = FALSE
    /\ IF ok
       THEN /\ gridAssigned(storage, board)
            /\ solveError' = IF caller = "user" THEN NullMessage ELSE solveError
       ELSE IF caller = "mount"
       THEN /\ gridAssigned(storage, emptyGridValue)
            /\ UNCHANGED solveError
       ELSE /\ solveError' = GenerateFailed
            /\ UNCHANGED <<gridValue, storage>>

\* generateWithWorker(minFilled) with a worker: the timeout is set, the
\* handlers are installed, the message is posted.
workerAsked(k) ==
    /\ worker' = "created"
    /\ localTry' = k
    /\ timerArmed' = TRUE
    /\ inbox' = inbox + 1
    /\ apc' = "worker"
    /\ UNCHANGED <<gridValue, solveError, storage, isGenerating>>

\* Mutant of localNeeded: the result of the API is not looked at.
localAlways(r) == TRUE

\* if (apiResult && apiResult.grid) return apiResult.grid; otherwise the
\* board is generated locally.
localNeeded(r) == r.isNull \/ r.grid = NullGrid

\* The promise of generateWithWorker number k was rejected: the first is
\* awaited inside the try, whose catch calls generateWithWorker again.
retryInCatch(k) == k = 1

\* fetchSudoku has returned: its grid is the result, or the board is
\* generated locally, by the worker or, without one, synchronously (twice
\* when the first generateSudokuSync throws).
ApiAnswered ==
    /\ apc = "api"
    /\ \E r \in {fetchSudoku(outcome, asked) : outcome \in ApiOutcomes} :
             /\ apiResult' = r
             /\ IF ~localNeeded(r)
                THEN /\ callEnds(TRUE, r.grid)
                     /\ UNCHANGED <<localTry, worker, inbox>>
                ELSE \E supported \in IF worker = "none" THEN BOOLEAN
                                     ELSE {worker = "created"} :
                        IF supported
                        THEN workerAsked(1)
                        ELSE /\ worker' = "unsupported"
                             /\ UNCHANGED inbox
                             /\ \E first \in WorkerResponses :
                                   IF first.type = "success"
                                   THEN localTry' = 1 /\ callEnds(TRUE, first.grid)
                                   ELSE \E second \in WorkerResponses :
                                           /\ localTry' = 2
                                           /\ callEnds(second.type = "success", second.grid)
    /\ UNCHANGED <<savedGames, trash, now, caller, difficulty, asked, mail, timeouts,
                   shownBefore, calls, notApp>>

\* The awaited promise of generateWithWorker is rejected.
promiseRejected ==
    IF retryInCatch(localTry)
    THEN workerAsked(localTry + 1)
    ELSE callEnds(FALSE, NullGrid) /\ UNCHANGED <<localTry, worker, inbox>>

\* The worker handles one 'generate' message and posts its response.
WorkerRuns ==
    /\ inbox > 0
    /\ inbox' = inbox - 1
    /\ \E response \in WorkerResponses : mail' = Append(mail, response)
    /\ UNCHANGED <<gridValue, solveError, storeVars, apc, caller, difficulty, asked,
                   isGenerating, apiResult, localTry, worker, timerArmed, timeouts,
                   shownBefore, calls, notApp>>

\* workerInstance.onmessage: the handler installed last clears its timeout
\* and settles its promise; a settled promise stays as it is.
MessageDelivered ==
    /\ mail # <<>>
    /\ mail' = Tail(mail)
    /\ IF apc = "worker"
       THEN IF Head(mail).type = "success"
            THEN callEnds(TRUE, Head(mail).grid) /\ UNCHANGED <<localTry, worker, inbox>>
            ELSE promiseRejected
       ELSE UNCHANGED <<gridValue, solveError, storage, apc, isGenerating, localTry,
                        worker, inbox, timerArmed>>
    /\ UNCHANGED <<savedGames, trash, now, caller, difficulty, asked, apiResult,
                   timeouts, shownBefore, calls, notApp>>

\* workerInstance.onerror
WorkerErrored ==
    /\ apc = "worker"
    /\ promiseRejected
    /\ UNCHANGED <<savedGames, trash, now, caller, difficulty, asked, apiResult, mail,
                   timeouts, shownBefore, calls, notApp>>

\* The timeout set by generateWithWorker fires after 10 seconds without a
\* message.
Timeout ==
    /\ apc = "worker"
    /\ timerArmed
    /\ timeouts' = timeouts + 1
    /\ promiseRejected
    /\ UNCHANGED <<savedGames, trash, now, caller, difficulty, asked, apiResult, mail,
                   shownBefore, calls, notApp>>

AppNext ==
    \/ Mount
    \/ handleDifficultyChange
    \/ handleGenerate
    \/ ApiAnswered
    \/ WorkerRuns
    \/ MessageDelivered
    \/ WorkerErrored
    \/ Timeout

AppSpec == AppInit /\ [][AppNext]_vars

(***************************************************************************)
(* Claims about the boards the app takes from outside and about the calls  *)
(* of generateSudoku (under AppSpec).                                      *)
(***************************************************************************)
\* The games of a list all have grids with the shape of a board.
gamesWellFormed(games) == \A k \in DOMAIN games : WellFormed(games[k].grid)

\* C17: every board taken from outside (saved games and trash read from
\* storage, the persisted current grid, a grid of the remote API) has the
\* shape of a board, 9 rows of 9 cells with a value and an isStatic each;
\* data of another shape never becomes the current grid or a saved game.
C17_OutsideBoardsHaveShape ==
    /\ WellFormed(gridValue)
    /\ gamesWellFormed(savedGames)
    /\ gamesWellFormed(trash)

\* The call of generateSudoku that ran last has ended.
callEnded == apc = "idle" /\ caller # "none"

\* C18: a 'generate' request the worker does not answer within 10 seconds
\* is a generation failure: a call of the initial mount ends with the empty
\* 9x9 grid, a call of the user ends with the board shown before and with
\* the error message.
C18_TimeoutIsGenerationFailure ==
    (callEnded /\ timeouts > 0) =>
        IF caller = "mount" THEN gridValue = emptyGridValue
        ELSE gridValue = shownBefore /\ solveError = GenerateFailed

\* C19: in every call of generateSudoku the API is asked first: no local
\* generation (worker or synchronous) has started while the API call runs,
\* a local generation started only after the API call returned no grid of
\* the requested difficulty, and when it returned one the call has ended
\* with that grid as its result and without a local generation.
C19_ApiFirstThenLocal ==
    /\ apc = "api" => localTry = 0
    /\ localTry > 0 => apiResult.isNull
    /\ ~apiResult.isNull =>
          /\ callEnded
          /\ localTry = 0
          /\ gridValue = apiResult.grid
          /\ apiResult.difficulty = asked

\* The user asked for a hard board and the API returned one: it replaced
\* the board shown before.
C19_Witness ==
    /\ callEnded
    /\ caller = "user"
    /\ gridValue # shownBefore
    /\ ~apiResult.isNull
    /\ asked = "hard"
    /\ gridValue = apiResult.grid
    /\ localTry = 0

\* C25: for each call of generateSudoku of useSudokuWorker at most one
\* 'generate' message is posted to the worker and at most one 10-second
\* timeout is armed (generateWithWorker is called at most once by the call),
\* so that a failing local generation is reported after a single attempt.
C25_OneLocalAttemptPerCall == localTry <= 1

(***************************************************************************)
(* generateSudoku of useSudokuWorker called by any callers, whose calls    *)
(* may overlap, on the one worker instance of the composable.  A request   *)
(* is a call of generateWithWorker: <<k, n>> is the n-th of call k.  The   *)
(* messages of the code carry no request; the model tags each 'generate'   *)
(* message, and the response to it, with the request that posted it.  The  *)
(* timeout of a request is armed as long as its promise is pending.        *)
(***************************************************************************)
\* Most calls of generateSudoku the callers make.
MaxOverlap == 2

NoRequest == <<>>

\* A call: where it is ("api": fetchSudoku awaited, "worker": the promise
\* of generateWithWorker awaited, "ended"), the calls of generateWithWorker
\* it has made, and the request whose response resolved its last promise.
CallAt(at, try, settledBy) == [pc |-> at, try |-> try, settledBy |-> settledBy]

\* The calls that have not ended.
pendingCalls == {k \in DOMAIN running : running[k].pc # "ended"}

notPool ==
    <<heap, pureVars, genVars, queryVars, uiVars, storeVars, gameVars, apc, caller,
      difficulty, asked, apiResult, localTry, inbox, mail, timerArmed, timeouts,
      shownBefore, calls>>

PoolInit ==
    /\ heap = <<>>
    /\ PureIdle
    /\ GenIdle
    /\ QueryIdle
    /\ UiIdle
    /\ StoreIdle
    /\ CallIdle

\* generateSudoku(minFilled, difficulty) up to the await of fetchSudoku.
CallStarts ==
    /\ Len(running) < MaxOverlap
    /\ running' = Append(running, CallAt("api", 0, NoRequest))
    /\ isGenerating' = TRUE
    /\ UNCHANGED <<worker, onmessage, posted, replies, notPool>>

\* Call k returns or throws, settled as given: finally, isGenerating.value
\* = false.
callReturns(k, settledBy) ==
    /\ running' = [running EXCEPT ![k] = CallAt("ended", @.try, settledBy)]
    /\ isGenerating' = FALSE

\* generateWithWorker with a worker, the n-th of call k: the timeout is
\* set, onmessage and onerror of the worker instance are replaced, the
\* message is posted.
requestPosted(k, n) ==
    /\ running' = [running EXCEPT ![k] = CallAt("worker", n, NoRequest)]
    /\ onmessage' = <<k, n>>
    /\ posted' = Append(posted, <<k, n>>)
    /\ UNCHANGED isGenerating

\* The promise call k awaits is rejected: the catch of generateSudoku
\* calls generateWithWorker again, whose rejection the caller gets.
requestRejected(k) ==
    IF retryInCatch(running[k].try)
    THEN requestPosted(k, running[k].try + 1)
    ELSE callReturns(k, NoRequest) /\ UNCHANGED <<onmessage, posted>>

\* fetchSudoku has returned to call k: with a grid, which is the result;
\* without one, the board is generated by the worker or, when no worker
\* can be created, synchronously before the call goes on.
FetchReturned ==
    \E k \in DOMAIN running :
        /\ running[k].pc = "api"
        /\ \E withGrid \in BOOLEAN :
              IF withGrid
              THEN callReturns(k, NoRequest) /\ UNCHANGED <<worker, onmessage, posted>>
              ELSE \E supported \in IF worker = "none" THEN BOOLEAN
                                   ELSE {worker = "created"} :
                      IF supported
                      THEN worker' = "created" /\ requestPosted(k, 1)
                      ELSE /\ worker' = "unsupported"
                           /\ callReturns(k, NoRequest)
                           /\ UNCHANGED <<onmessage, posted>>
        /\ UNCHANGED <<replies, notPool>>

\* The worker handles the oldest 'generate' message and posts its response.
WorkerAnswers ==
    /\ posted # <<>>
    /\ posted' = Tail(posted)
    /\ \E type \in {"success", "error"} :
          replies' = Append(replies, [type |-> type, request |-> Head(posted)])
    /\ UNCHANGED <<running, isGenerating, worker, onmessage, notPool>>

\* The promise of the request whose handlers the worker instance holds is
\* pending.
handlerPending ==
    /\ onmessage # NoRequest
    /\ running[onmessage[1]].pc = "worker"
    /\ running[onmessage[1]].try = onmessage[2]

\* workerInstance.onmessage(event): the handler installed last settles its
\* promise with the response; a settled promise stays as it is.
ReplyDelivered ==
    /\ replies # <<>>
    /\ replies' = Tail(replies)
    /\ IF handlerPending
       THEN IF Head(replies).type = "success"
            THEN /\ callReturns(onmessage[1], Head(replies).request)
                 /\ UNCHANGED <<onmessage, posted>>
            ELSE requestRejected(onmessage[1])
       ELSE UNCHANGED <<running, isGenerating, onmessage, posted>>
    /\ UNCHANGED <<worker, notPool>>

\* workerInstance.onerror(error): the handler installed last rejects its
\* promise.
WorkerFailed ==
    /\ handlerPending
    /\ requestRejected(onmessage[1])
    /\ UNCHANGED <<worker, replies, notPool>>

\* The timeout of the request call k awaits fires: 10 seconds have passed
\* and no handler has cleared it.
TimerFired ==
    \E k \in DOMAIN running :
        /\ running[k].pc = "worker"
        /\ requestRejected(k)
        /\ UNCHANGED <<worker, replies, notPool>>

PoolNext ==
    \/ CallStarts
    \/ FetchReturned
    \/ WorkerAnswers
    \/ ReplyDelivered
    \/ WorkerFailed
    \/ TimerFired

PoolSpec == PoolInit /\ [][PoolNext]_vars

(***************************************************************************)
(* Claims about overlapping calls and requests (under PoolSpec).           *)
(***************************************************************************)
\* C26: every promise returned by generateWithWorker settles only with the
\* response of the worker to its own postMessage: no call has got the
\* response to another request (an earlier one that timed out, or one of
\* an overlapping call) as its result, and every request whose promise is
\* pending is the one whose handlers the worker instance holds.
C26_RepliesSettleOwnRequest ==
    \A k \in DOMAIN running :
        /\ running[k].settledBy # NoRequest =>
              running[k].settledBy = <<k, running[k].try>>
        /\ running[k].pc = "worker" => onmessage = <<k, running[k].try>>

\* C27: isGenerating is true in every state in which a call of
\* generateSudoku is pending and false once none is, however the calls end
\* and also when they overlap.
C27_GeneratingWhileCallsPending == isGenerating <=> pendingCalls # {}

(***************************************************************************)
(* The trash of useSudokuGames: onMounted, deleteGame, restoreGame,        *)
(* permanentDeleteGame, each with the watcher of trash (cleanupTrash) that *)
(* runs after it, while days pass and the app is closed and opened again.  *)
(* The games are the stored ones; none of them is loaded.                  *)
(***************************************************************************)
\* Most days the app is followed for.
MaxDays == 8

\* Stored lists games are taken from: two saved games, with nothing, one
\* game or two games in the trash.
StoredGames ==
    jsonOfGames(<<Game(1, gridOfJson(GoodJson), NullIndex),
                  Game(4, gridOfJson(EmptyJson), NullIndex)>>)
TrashStorageInputs ==
    {[GAMES |-> StoredGames, TRASH |-> x, CURRENT_GRID |-> Absent] :
        x \in {Absent,
               jsonOfGames(<<Game(2, gridOfJson(GoodJson), 1)>>),
               jsonOfGames(<<Game(2, gridOfJson(GoodJson), 1),
                             Game(3, gridOfJson(EmptyJson), TRASH_AUTO_REMOVE_DAYS + 1)>>)}}

notTrash ==
    <<heap, pureVars, genVars, queryVars, uiVars, caller, difficulty, asked, isGenerating,
      apiResult, localTry, worker, inbox, mail, timerArmed, timeouts, shownBefore, calls,
      poolVars, gridObj, gameObj, clicks>>

TrashInit ==
    /\ heap = <<>>
    /\ PureIdle
    /\ GenIdle
    /\ QueryIdle
    /\ UiIdle
    /\ CallIdle
    /\ storage \in TrashStorageInputs
    /\ savedGames = <<>>
    /\ trash = <<>>
    /\ now = TRASH_AUTO_REMOVE_DAYS + 1

\* Mutant of withoutId: the game with the id stays in the list.
withoutNone(games, id) == games

\* The games of a list but the one with the id, and the ids of a list.
withoutId(games, id) == LET other(game) == game.id # id IN SelectSeq(games, other)
idsOf(games) == {games[k].id : k \in DOMAIN games}

\* trash.value = tr, and the watcher of trash that runs cleanupTrash.
trashAssigned(tr, store) ==
    LET cleaned == cleanupTrash(tr, store, now)
    IN /\ trash' = cleaned.trash
       /\ storage' = cleaned.store

\* onMounted of useSudokuGames
GamesMounted ==
    /\ apc = "unmounted"
    /\ LET games == getFromStorage(storage, "GAMES", JArr(<<>>), savedGamesValidator)
           trashed == getFromStorage(games.store, "TRASH", JArr(<<>>), savedGamesValidator)
       IN /\ savedGames' = gamesOfJson(games.value)
          /\ trashAssigned(gamesOfJson(trashed.value), trashed.store)
    /\ apc' = "idle"
    /\ UNCHANGED <<now, currentGameId, notTrash>>

\* Mutant of currentAfterDelete: currentGameId is left as it is.
currentKept(id) == currentGameId

\* if (currentGameId.value === id) currentGameId.value = null
currentAfterDelete(id) == IF currentGameId = id THEN NullIndex ELSE currentGameId

\* deleteGame(id) for a saved game: what it does to the lists, to
\* localStorage and to currentGameId.
gameDeleted(id) ==
    LET gameToTrash == savedGames[CHOOSE k \in DOMAIN savedGames : savedGames[k].id = id]
        rest == withoutId(savedGames, id)
    IN /\ savedGames' = rest
       /\ currentGameId' = currentAfterDelete(id)
       /\ trashAssigned(
              Append(withoutId(trash, id), [gameToTrash EXCEPT !.deletedAt = now]),
              setToStorage(setToStorage(storage, "GAMES", jsonOfGames(rest)), "TRASH",
                  jsonOfGames(Append(withoutId(trash, id),
                                     [gameToTrash EXCEPT !.deletedAt = now]))))

\* restoreGame(id) for a game of the trash.
gameRestored(id) ==
    LET gameToRestore == trash[CHOOSE k \in DOMAIN trash : trash[k].id = id]
        rest == withoutId(trash, id)
        restored == Append(savedGames, [gameToRestore EXCEPT !.deletedAt = NullIndex])
    IN /\ savedGames' = restored
       /\ trashAssigned(rest,
              setToStorage(setToStorage(storage, "TRASH", jsonOfGames(rest)), "GAMES",
                  jsonOfGames(restored)))
       /\ UNCHANGED currentGameId

\* permanentDeleteGame(id) for a game of the trash.
gamePurged(id) ==
    /\ trashAssigned(withoutId(trash, id),
                     setToStorage(storage, "TRASH", jsonOfGames(withoutId(trash, id))))
    /\ UNCHANGED <<savedGames, currentGameId>>

\* deleteGame(id), for a game of the list of saved games.
deleteGame ==
    /\ apc = "idle"
    /\ \E id \in idsOf(savedGames) : gameDeleted(id)
    /\ UNCHANGED <<now, apc, notTrash>>

\* restoreGame(id), for a game of the list of the trash.
restoreGame ==
    /\ apc = "idle"
    /\ \E id \in idsOf(trash) : gameRestored(id)
    /\ UNCHANGED <<now, apc, notTrash>>

\* permanentDeleteGame(id), for a game of the list of the trash.
permanentDeleteGame ==
    /\ apc = "idle"
    /\ \E id \in idsOf(trash) : gamePurged(id)
    /\ UNCHANGED <<now, apc, notTrash>>

\* A day passes, the app open or closed.
DayPasses ==
    /\ now < TRASH_AUTO_REMOVE_DAYS + 1 + MaxDays
    /\ now' = now + 1
    /\ UNCHANGED <<storage, savedGames, trash, apc, currentGameId, notTrash>>

\* The page is closed: what is left is localStorage.
AppClosed ==
    /\ apc = "idle"
    /\ apc' = "unmounted"
    /\ savedGames' = <<>>
    /\ trash' = <<>>
    /\ UNCHANGED <<storage, now, currentGameId, notTrash>>

TrashNext ==
    \/ GamesMounted
    \/ deleteGame
    \/ restoreGame
    \/ permanentDeleteGame
    \/ DayPasses
    \/ AppClosed

TrashSpec == TrashInit /\ [][TrashNext]_vars

(***************************************************************************)
(* Claim about the trash (under TrashSpec).                                *)
(***************************************************************************)
\* The games of a list were all deleted less than 7 days ago.
allRecent(games) ==
    \A k \in DOMAIN games :
        games[k].deletedAt # NullIndex => now - games[k].deletedAt < TRASH_AUTO_REMOVE_DAYS

\* C20: trashed games are deleted automatically after 7 days: while the
\* app is open, no game deleted 7 days ago or earlier is in the trash list,
\* in memory or persisted (so that restoreGame could still restore it).
C20_TrashedGamesGoneAfter7Days ==
    apc = "idle" =>
        /\ allRecent(trash)
        /\ isArray(storage.TRASH) => allRecent(gamesOfJson(storage.TRASH))

(***************************************************************************)
(* The saved games with their grids as objects: saveGame, loadGame,        *)
(* deleteGame, restoreGame, permanentDeleteGame, and what assigns          *)
(* grid.value meanwhile: updateGrid (an edit of the table), handleSolve,   *)
(* handleEmptyGrid, and the board of a call of generateSudoku made by      *)
(* onMounted or by handleGenerate, which arrives while other handlers run. *)
(* The app is mounted with one saved game and one game in the trash.  Ids  *)
(* are the times Date.now() returned, numbered in the order they were      *)
(* handed out; savedGames and trash hold of each game what its grid was    *)
(* saved with, gameObj the cell objects of that grid.  lastEvent names the *)
(* handler that ran last.                                                  *)
(***************************************************************************)
\* Most runs of handlers that make a grid.
MaxClicks == 3

\* A saved game with its name.
NamedGame(id, grid, deletedAt, name) ==
    [id |-> id, grid |-> grid, deletedAt |-> deletedAt, name |-> name]

\* The cells of a board laid out as fresh cell objects after those of h.
allocated(h, board) ==
    [heap |-> h \o [i \in 1 .. NN |-> board[(i - 1) \div N][(i - 1) % N]],
     grid |-> freshGrid(h)]

\* The grids the app is mounted with, the one shown, that of the saved
\* game 1 and that of the trashed game 2, the board a call of
\* generateSudoku resolves with, and the cell the user edits.
ShownGrid == puzzleOf(Punch(Seed, UserCells))
FirstGrid == [puzzleOf(Punch(Seed, UserCells)) EXCEPT ![0][0].value = Seed[0][0]]
SecondGrid == puzzleOf(Punch(Seed, {<<0, BoxSize>>}))
NewBoard == puzzleOf(Punch(Seed, UserCells \ {<<0, BoxSize>>}))
EditedCell == <<0, 0>>

notGames ==
    <<pureVars, genVars, queryVars, selectedRow, selectedCol, prevGrid, difficulty,
      asked, apiResult, localTry, worker, inbox, mail, timerArmed, timeouts, shownBefore,
      calls, poolVars>>

\* The app after onMounted of useSudokuGames and of App: a stored grid is
\* shown, or the call of generateSudoku made by onMounted is pending.
GamesInit ==
    /\ PureIdle
    /\ GenIdle
    /\ QueryIdle
    /\ PoolIdle
    /\ LET shown == allocated(<<>>, ShownGrid)
           first == allocated(shown.heap, FirstGrid)
           second == allocated(first.heap, SecondGrid)
       IN /\ heap = second.heap
          /\ gridObj = shown.grid
          /\ gameObj = <<first.grid, second.grid>>
    /\ gridValue = ShownGrid
    /\ selectedRow = NullIndex
    /\ selectedCol = NullIndex
    /\ solveError = NullMessage
    /\ lastEvent = NoEvent
    /\ prevGrid = NullGrid
    /\ now = TRASH_AUTO_REMOVE_DAYS + 1
    /\ savedGames = <<NamedGame(1, FirstGrid, NullIndex, "first")>>
    /\ trash = <<NamedGame(2, SecondGrid, now - 1, "second")>>
    /\ storage = [GAMES |-> jsonOfGames(savedGames), TRASH |-> jsonOfGames(trash),
                  CURRENT_GRID |-> jsonOfGrid(ShownGrid)]
    /\ currentGameId = NullIndex
    /\ clicks = 0
    /\ \E pending \in BOOLEAN :
          /\ apc = IF pending THEN "api" ELSE "idle"
          /\ caller = IF pending THEN "mount" ELSE "none"
          /\ isGenerating = pending
    /\ difficulty = "medium"
    /\ asked = "none"
    /\ apiResult = ApiNull
    /\ localTry = 0
    /\ worker = "none"
    /\ inbox = 0
    /\ mail = <<>>
    /\ timerArmed = FALSE
    /\ timeouts = 0
    /\ shownBefore = NullGrid
    /\ calls = 0

\* A handler has run.
handled(name) ==
    /\ clicks < MaxClicks
    /\ clicks' = clicks + 1
    /\ lastEvent' = [NoEvent EXCEPT !.handler = name]

\* grid.value = grid, a grid of cell objects of the heap h.
gridObjAssigned(h, grid) ==
    /\ heap' = h
    /\ gridObj' = grid
    /\ gridAssigned(storage, deref(h, grid))

\* The saved game with the id.
gameWithId(games, id) == games[CHOOSE k \in DOMAIN games : games[k].id = id]

\* savedGames.value.map(game => game.id === currentGameId.value ? { ...game,
\* grid: newGridSnapshot } : game)
withSnapshot(games, id, snapshot) ==
    [k \in DOMAIN games |->
        IF games[k].id = id THEN [games[k] EXCEPT !.grid = snapshot] ELSE games[k]]

\* saveGame(): the game that is current gets a copy of the grid, or a new
\* game with a copy of the grid is added and becomes the current one.
saveGame ==
    /\ apc # "unmounted"
    /\ handled("saveGame")
    /\ LET newGridSnapshot == copyGrid(heap, gridObj)
           snapshot == deref(newGridSnapshot.heap, newGridSnapshot.grid)
           newId == Len(gameObj) + 1
       IN /\ heap' = newGridSnapshot.heap
          /\ IF currentGameId # NullIndex
             THEN /\ savedGames' = withSnapshot(savedGames, currentGameId, snapshot)
                  /\ gameObj' = IF currentGameId \in idsOf(savedGames)
                                THEN [gameObj EXCEPT ![currentGameId] = newGridSnapshot.grid]
                                ELSE gameObj
                  /\ UNCHANGED currentGameId
             ELSE /\ savedGames' = Append(savedGames, NamedGame(newId, snapshot, NullIndex, ""))
                  /\ gameObj' = Append(gameObj, newGridSnapshot.grid)
                  /\ currentGameId' = newId
          /\ storage' = setToStorage(storage, "GAMES", jsonOfGames(savedGames'))
    /\ UNCHANGED <<gridValue, gridObj, solveError, trash, apc, caller, isGenerating, now,
                   notGames>>

\* handleLoad(game) for a game of the list of saved games: loadGame shows a
\* copy of its grid and makes it the current one.
loadGame ==
    /\ apc # "unmounted"
    /\ handled("loadGame")
    /\ \E id \in idsOf(savedGames) :
          LET copy == copyGrid(heap, gameObj[id])
          IN /\ gridObjAssigned(copy.heap, copy.grid)
             /\ currentGameId' = id
    /\ solveError' = NullMessage
    /\ UNCHANGED <<savedGames, trash, gameObj, apc, caller, isGenerating, now, notGames>>

\* updateGrid(newGrid), newGrid being what an edit handler of the table
\* emits: props.grid.map(...) with a new cell of the value at a cell that is
\* not static, the other cells being those of props.grid.
updateGrid ==
    /\ apc # "unmounted"
    /\ handled("updateGrid")
    /\ \E p \in {EditedCell}, value \in Digits \cup {Empty} :
          /\ ~staticAt(heap, gridObj, p[1], p[2])
          /\ value = Empty \/ isValidForCell(deref(heap, gridObj), p[1], p[2], value)
          /\ gridObjAssigned(
                 Append(heap, [heap[gridObj[p[1]][p[2]]] EXCEPT !.value = value]),
                 [gridObj EXCEPT ![p[1]][p[2]] = Len(heap) + 1])
    /\ UNCHANGED <<solveError, savedGames, trash, currentGameId, gameObj, apc, caller,
                   isGenerating, now, notGames>>

\* A click on the delete button of a saved game, and on the restore and
\* the delete button of a game of the trash.
DeleteClicked ==
    /\ apc # "unmounted"
    /\ handled("deleteGame")
    /\ \E id \in idsOf(savedGames) : gameDeleted(id)
    /\ UNCHANGED <<heap, gridValue, gridObj, solveError, gameObj, apc, caller,
                   isGenerating, now, notGames>>
RestoreClicked ==
    /\ apc # "unmounted"
    /\ handled("restoreGame")
    /\ \E id \in idsOf(trash) : gameRestored(id)
    /\ UNCHANGED <<heap, gridValue, gridObj, solveError, gameObj, apc, caller,
                   isGenerating, now, notGames>>
PermanentDeleteClicked ==
    /\ apc # "unmounted"
    /\ handled("permanentDeleteGame")
    /\ \E id \in idsOf(trash) : gamePurged(id)
    /\ UNCHANGED <<heap, gridValue, gridObj, solveError, gameObj, apc, caller,
                   isGenerating, now, notGames>>

\* handleSolve on the grid of cell objects.
GameSolved ==
    /\ apc # "unmounted"
    /\ handled("handleSolve")
    /\ LET solution == solveSudoku(heap, gridObj)
       IN IF solution.grid # NullGrid
          THEN /\ gridObjAssigned(solution.heap, solution.grid)
               /\ solveError' = NullMessage
          ELSE /\ heap' = solution.heap
               /\ solveError' = Unsolvable
               /\ UNCHANGED <<gridObj, gridValue, storage>>
    /\ UNCHANGED <<savedGames, trash, currentGameId, gameObj, apc, caller, isGenerating,
                   now, notGames>>

\* handleEmptyGrid on the grid of cell objects.
GameEmptied ==
    /\ apc # "unmounted"
    /\ handled("handleEmptyGrid")
    /\ LET empty == createEmptyGrid(heap)
       IN gridObjAssigned(empty.heap, empty.grid)
    /\ currentGameId' = NullIndex
    /\ UNCHANGED <<solveError, savedGames, trash, gameObj, apc, caller, isGenerating,
                   now, notGames>>

\* handleGenerate up to its await; its button is disabled while
\* isGenerating.
GeneratePressed ==
    /\ apc = "idle"
    /\ ~isGenerating
    /\ apc' = "api"
    /\ caller' = "user"
    /\ isGenerating' = TRUE
    /\ UNCHANGED <<heap, uiVars, storage, savedGames, trash, gameVars, now, notGames>>

\* The pending call of generateSudoku resolves with a board, made of new
\* cell objects: onMounted shows it, handleGenerate shows it and resets
\* currentGameId and solveError.
GameGenerated ==
    /\ apc = "api"
    /\ handled(IF caller = "user" THEN "handleGenerate" ELSE "onMounted")
    /\ LET made == allocated(heap, NewBoard)
       IN gridObjAssigned(made.heap, made.grid)
    /\ currentGameId' = IF caller = "user" THEN NullIndex ELSE currentGameId
    /\ solveError' = IF caller = "user" THEN NullMessage ELSE solveError
    /\ apc' = "idle"
    /\ isGenerating' = FALSE
    /\ UNCHANGED <<savedGames, trash, gameObj, caller, now, notGames>>

\* The pending call of generateSudoku rejects: onMounted shows the empty
\* grid, handleGenerate sets solveError.
GenerationFailed ==
    /\ apc = "api"
    /\ IF caller = "user"
       THEN /\ solveError' = GenerateFailed
            /\ UNCHANGED <<heap, gridValue, gridObj, storage, lastEvent, clicks>>
       ELSE /\ handled("onMounted")
            /\ LET empty == createEmptyGrid(heap)
               IN gridObjAssigned(empty.heap, empty.grid)
            /\ UNCHANGED solveError
    /\ apc' = "idle"
    /\ isGenerating' = FALSE
    /\ UNCHANGED <<savedGames, trash, currentGameId, gameObj, caller, now, notGames>>

GamesNext ==
    \/ saveGame
    \/ loadGame
    \/ DeleteClicked
    \/ RestoreClicked
    \/ PermanentDeleteClicked
    \/ updateGrid
    \/ GameSolved
    \/ GameEmptied
    \/ GeneratePressed
    \/ GameGenerated
    \/ GenerationFailed

GamesSpec == GamesInit /\ [][GamesNext]_vars

(***************************************************************************)
(* Claims about the saved games (under GamesSpec).                         *)
(***************************************************************************)
\* No id occurs twice in a list of games.
uniqueIds(games) == Cardinality(idsOf(games)) = Len(games)

\* The games of a list but the one with the id, in their order.
othersOf(games, id) ==
    LET kept(game) == game.id # id IN SelectSeq(games, kept)

\* No game is both saved and in the trash, nor twice in a list.
ListsDisjoint ==
    /\ idsOf(savedGames) \cap idsOf(trash) = {}
    /\ uniqueIds(savedGames)
    /\ uniqueIds(trash)

\* A step that takes a game from the saved games takes that game alone and
\* puts it last into the trash, as it was but for deletedAt, which is the
\* time of the step.
DeleteMoves ==
    \A id \in idsOf(savedGames) \ idsOf(savedGames') :
        /\ savedGames' = othersOf(savedGames, id)
        /\ trash' = Append(othersOf(trash, id),
                           [gameWithId(savedGames, id) EXCEPT !.deletedAt = now])

\* A step that takes a game from the trash to the saved games takes that
\* game alone and puts it last, as it was (its id, grid and name) but
\* without deletedAt.
RestoreMoves ==
    \A id \in (idsOf(trash) \ idsOf(trash')) \cap idsOf(savedGames') :
        /\ trash' = othersOf(trash, id)
        /\ savedGames' = Append(savedGames,
                                [gameWithId(trash, id) EXCEPT !.deletedAt = NullIndex])

\* C28: after any sequence of saveGame, loadGame, deleteGame, restoreGame
\* and permanentDeleteGame, new ids being distinct, no game id occurs in
\* both savedGames and trash and none twice within a list; deleteGame
\* moves exactly the named game to the trash with a deletedAt stamp, and
\* restoreGame moves it back with the same id, grid and name and without
\* deletedAt.
C28_GamesMoveBetweenLists == []ListsDisjoint /\ [][DeleteMoves /\ RestoreMoves]_vars

\* The saved game 1 was deleted and the trashed game 2 restored: game 2 is
\* saved as it was, game 1 is in the trash with the time of its deletion.
C28_Witness ==
    /\ lastEvent.handler = "restoreGame"
    /\ idsOf(savedGames) = {2}
    /\ gameWithId(savedGames, 2) = NamedGame(2, SecondGrid, NullIndex, "second")
    /\ idsOf(trash) = {1}
    /\ gameWithId(trash, 1) = NamedGame(1, FirstGrid, now, "first")

\* C29: currentGameId is null or the id of exactly one saved game; it is
\* null after handleEmptyGrid and after handleGenerate has shown its board;
\* after saveGame the current game is a saved game that holds the grid, so
\* that saveGame never saves nothing.
C29_CurrentGameIsSaved ==
    /\ currentGameId # NullIndex =>
          Cardinality({k \in DOMAIN savedGames : savedGames[k].id = currentGameId}) = 1
    /\ lastEvent.handler \in {"handleEmptyGrid", "handleGenerate"} =>
          currentGameId = NullIndex
    /\ lastEvent.handler = "saveGame" =>
          /\ currentGameId \in idsOf(savedGames)
          /\ gameWithId(savedGames, currentGameId).grid = gridValue

\* The saved game 1 was loaded and edited, and saveGame has updated it.
C29_Witness ==
    /\ lastEvent.handler = "saveGame"
    /\ currentGameId = 1
    /\ Len(savedGames) = 1
    /\ savedGames[1].grid # FirstGrid
    /\ savedGames[1].grid = gridValue

\* What the cell objects of the grid of the game with the id hold.
storedGrid(h, objs, id) == deref(h, objs[id])

\* The grid of every stored game holds what the game was saved with.
SnapshotsKept ==
    /\ \A k \in DOMAIN savedGames :
          storedGrid(heap, gameObj, savedGames[k].id) = savedGames[k].grid
    /\ \A k \in DOMAIN trash : storedGrid(heap, gameObj, trash[k].id) = trash[k].grid

\* A step changes what the grid of a stored game holds only if it is
\* saveGame, the game is the current one and the grid then holds what the
\* current grid holds.
SnapshotChanges ==
    \A id \in (idsOf(savedGames) \cup idsOf(trash))
              \cap (idsOf(savedGames') \cup idsOf(trash')) :
        storedGrid(heap', gameObj', id) # storedGrid(heap, gameObj, id) =>
            /\ lastEvent'.handler = "saveGame"
            /\ currentGameId = id
            /\ storedGrid(heap', gameObj', id) = deref(heap, gridObj)

\* C30: the grid of a saved game is an isolated snapshot: it changes only
\* through saveGame while that game is the current one; cell edits,
\* handleSolve, generation and the empty grid, made on the current grid
\* after saveGame or loadGame, change no cell of a game in savedGames or
\* trash.
C30_SavedGridsAreSnapshots == []SnapshotsKept /\ [][SnapshotChanges]_vars

\* A saved game was loaded and the grid then solved or edited: the grid
\* shown differs from the grid of the game, which holds what it held.
C30_Witness ==
    /\ lastEvent.handler \in {"handleSolve", "updateGrid"}
    /\ currentGameId = 1
    /\ gridValue # FirstGrid
    /\ storedGrid(heap, gameObj, 1) = FirstGrid
    /\ deref(heap, gridObj) = gridValue

====
